---- MODULE Spec2Model ----
(***************************************************************************)
(* NL -> Cypher pipeline of the TFM repository: the rules generator        *)
(* (utils/text_to_cypher.py), the interactive page (pages/0_Consulta.py:   *)
(* Generate / Execute / Clear over the Streamlit session state) and the    *)
(* batch evaluation harness (tools/eval_questions.py).                     *)
(*                                                                         *)
(* Texts (questions, queries, model responses) are TLA+ strings handled    *)
(* character by character: Len, SubSeq and \o act on them as Python's      *)
(* len, slicing and + act on str.                                          *)
(***************************************************************************)
EXTENDS Integers, Sequences, FiniteSets, TLC

(***************************************************************************)
(* Python str / re primitives                                              *)
(***************************************************************************)

\* s[i-1] in Python: the i-th character, as a one-character string
At(s, i) == SubSeq(s, i, i)

\* c in chars (c a single character)
IsIn(c, chars) == \E i \in 1..Len(chars) : At(chars, i) = c

IndexIn(c, chars) == CHOOSE i \in 1..Len(chars) : At(chars, i) = c

\* s[i:i+len(t)] == t, with i a 0-based offset
MatchAt(s, i, t) == i >= 0 /\ i + Len(t) <= Len(s) /\ SubSeq(s, i + 1, i + Len(t)) = t

\* Python's `t in s`
Contains(s, t) == \E i \in 0..(Len(s) - Len(t)) : MatchAt(s, i, t)

\* any(t in s for t in toks)
ContainsAny(s, toks) == \E t \in toks : Contains(s, t)

UpperChars == "ABCDEFGHIJKLMNOPQRSTUVWXYZÁÉÍÓÚÜÑ"

LowerChars == "abcdefghijklmnopqrstuvwxyzáéíóúüñ"

\* the letters of LowerChars that carry a diacritic, and their NFKD base letters
AccentedChars == "áéíóúüñ"

BaseChars == "aeiouun"

DigitChars == "0123456789"

\* the characters Python's \s and str.strip() treat as whitespace
SpaceChars == " \t\n\r\f"

IsSpace(c) == IsIn(c, SpaceChars)

\* the characters Python's \w matches
IsWordChar(c) == IsIn(c, LowerChars) \/ IsIn(c, UpperChars) \/ IsIn(c, DigitChars) \/ c = "_"

LowerChar(c) == IF IsIn(c, UpperChars) THEN At(LowerChars, IndexIn(c, UpperChars)) ELSE c

RECURSIVE Join(_, _, _)
\* "".join(f[i] for i in lo..hi), f a function from positions to strings
Join(f, lo, hi) ==
    IF lo > hi THEN ""
    ELSE IF lo = hi THEN f[lo]
    ELSE Join(f, lo, (lo + hi) \div 2) \o Join(f, (lo + hi) \div 2 + 1, hi)

\* str.lower()
lower(s) == Join([i \in 1..Len(s) |-> LowerChar(At(s, i))], 1, Len(s))

Min(S) == CHOOSE x \in S : \A y \in S : x <= y

Max(S) == CHOOSE x \in S : \A y \in S : x >= y

\* the positions of s that hold no whitespace
NonSpaces(s) == {i \in 1..Len(s) : ~IsSpace(At(s, i))}

lstrip(s) == IF NonSpaces(s) = {} THEN "" ELSE SubSeq(s, Min(NonSpaces(s)), Len(s))

rstrip(s) == IF NonSpaces(s) = {} THEN "" ELSE SubSeq(s, 1, Max(NonSpaces(s)))

\* str.strip()
strip(s) == rstrip(lstrip(s))

\* unicodedata.normalize("NFKD", c) with the combining marks dropped
StripAccent(c) == IF IsIn(c, AccentedChars) THEN At(BaseChars, IndexIn(c, AccentedChars)) ELSE c

StripAccents(s) == Join([i \in 1..Len(s) |-> StripAccent(At(s, i))], 1, Len(s))

\* str.replace(old, new) for a one-character old
replace(s, old, new) == Join([i \in 1..Len(s) |-> IF At(s, i) = old THEN new ELSE At(s, i)], 1, Len(s))

\* re.sub(r"\s+", " ", s): the first character of a whitespace run becomes a
\* space, the others go
CollapseSpaces(s) ==
    Join([i \in 1..Len(s) |->
            IF ~IsSpace(At(s, i)) THEN At(s, i)
            ELSE IF i > 1 /\ IsSpace(At(s, i - 1)) THEN "" ELSE " "], 1, Len(s))

\* s[i:i+len(t)].lower() == t, for a lower-case t
IMatchAt(s, i, t) == i >= 0 /\ i + Len(t) <= Len(s) /\ lower(SubSeq(s, i + 1, i + Len(t))) = t

\* \b at offset i of s: exactly one of s[i-1], s[i] is a word character
Boundary(s, i) ==
    LET before == i >= 1 /\ IsWordChar(At(s, i))
        after == i < Len(s) /\ IsWordChar(At(s, i + 1))
    IN  before # after

\* the offsets \s* (least = 0) or \s+ (least = 1) can reach from offset i
SpaceRun(s, i, least) == {j \in (i + least)..Len(s) : \A m \in (i + 1)..j : IsSpace(At(s, m))}

RECURSIVE MatchEnds(_, _, _, _)
\* the offsets at which pat[k..], a sequence of literals (ilit: under re.IGNORECASE,
\* its text given in lower case), \b, \s* and \s+, can end
\* when it starts at offset i of s
MatchEnds(pat, k, s, i) ==
    IF k > Len(pat) THEN {i}
    ELSE LET e == pat[k] IN
         CASE e.t = "lit" -> IF MatchAt(s, i, e.v) THEN MatchEnds(pat, k + 1, s, i + Len(e.v)) ELSE {}
           [] e.t = "ilit" -> IF IMatchAt(s, i, e.v) THEN MatchEnds(pat, k + 1, s, i + Len(e.v)) ELSE {}
           [] e.t = "b" -> IF Boundary(s, i) THEN MatchEnds(pat, k + 1, s, i) ELSE {}
           [] e.t = "s*" -> UNION {MatchEnds(pat, k + 1, s, j) : j \in SpaceRun(s, i, 0)}
           [] e.t = "s+" -> UNION {MatchEnds(pat, k + 1, s, j) : j \in SpaceRun(s, i, 1)}

Lit(v) == [t |-> "lit", v |-> v]

ILit(v) == [t |-> "ilit", v |-> v]

WordB == [t |-> "b", v |-> ""]

Ws0 == [t |-> "s*", v |-> ""]

Ws1 == [t |-> "s+", v |-> ""]

\* bool(re.search(pat, s)) for any of the alternative patterns pats
Search(pats, s) == \E p \in pats : \E i \in 0..Len(s) : MatchEnds(p, 1, s, i) # {}

\* the offset where the maximal run of \w characters starting at offset g ends
WordRunEnd(s, g) == Max({e \in g..Len(s) : \A m \in (g + 1)..e : IsWordChar(At(s, m))})

\* the offset where the maximal run of whitespace starting at offset g ends
SpaceRunEnd(s, g) == Max(SpaceRun(s, g, 0))

\* [a-zA-Z]
IsAsciiLetter(c) == c # "" /\ (IsIn(c, SubSeq(LowerChars, 1, 26)) \/ IsIn(c, SubSeq(UpperChars, 1, 26)))

\* [A-Z]
IsAsciiUpper(c) == c # "" /\ IsIn(c, SubSeq(UpperChars, 1, 26))

\* the character after offset i, "" at the end of s
CharAfter(s, i) == IF i < Len(s) THEN At(s, i + 1) ELSE ""

RECURSIVE SubFrom(_, _, _, _)
\* re.sub from offset pos on: ends maps the offset where a match starts to the
\* offset where it ends, repl to its replacement; matches are taken left to right
\* and do not overlap
SubFrom(s, pos, ends, repl) ==
    LET nxt == {c \in DOMAIN ends : c >= pos}
    IN  IF nxt = {} THEN SubSeq(s, pos + 1, Len(s))
        ELSE SubSeq(s, pos + 1, Min(nxt)) \o repl[Min(nxt)] \o SubFrom(s, ends[Min(nxt)], ends, repl)

(***************************************************************************)
(* utils/text_to_cypher.py: the rules generator                            *)
(***************************************************************************)

_norm(s) == IF s = "" THEN "" ELSE strip(CollapseSpaces(replace(StripAccents(lower(s)), "-", " ")))

\* Python's None (a value no text of the program equals)
None == "<None>"

\* Python truthiness of an Optional[str]: `not x`
Falsy(x) == x = None \/ x = ""

\* _has_root(q, "mencion")
_has_root_mencion(q) == Contains(_norm(q), "mencion") \/ Search({<<WordB, Lit("mencion")>>}, _norm(q))

\* _has_root(q, "modific")
_has_root_modific(q) ==
    \/ Contains(_norm(q), "modific")
    \/ Contains(_norm(q), "modifi")
    \/ Search({<<WordB, Lit("modific")>>}, _norm(q))

\* _has_root(q, "derog")
_has_root_derog(q) == Contains(_norm(q), "derog") \/ Search({<<WordB, Lit("derog")>>}, _norm(q))

\* _has_root(q, "articul")
_has_root_articul(q) == Contains(_norm(q), "articul") \/ Search({<<WordB, Lit("articul")>>}, _norm(q))

\* _has_root(q, "trat")
_has_root_trat(q) == ContainsAny(_norm(q), {"trata", "tema", "materia"})

\* the ordered (pattern, canonical term) list; the optional group (ue\s*)? of the
\* third pattern is written as its two alternatives
_SYNONYMS ==
    << [pats |-> {<<WordB, Lit("rgpd"), WordB>>}, canon |-> "reglamento ue 2016 679"],
       [pats |-> {<<WordB, Lit("gdpr"), WordB>>}, canon |-> "reglamento ue 2016 679"],
       [pats |-> {<<Lit("reglamento"), Ws1, Lit("ue"), Ws0, Lit("2016"), Ws0, Lit("/"), Ws0, Lit("679")>>,
                  <<Lit("reglamento"), Ws1, Lit("2016"), Ws0, Lit("/"), Ws0, Lit("679")>>},
        canon |-> "reglamento ue 2016 679"],
       [pats |-> {<<WordB, Lit("lo"), Ws0, Lit("3"), Ws0, Lit("/"), Ws0, Lit("2018"), WordB>>}, canon |-> "lo 3 2018"],
       [pats |-> {<<WordB, Lit("lo"), Ws0, Lit("15"), Ws0, Lit("/"), Ws0, Lit("1999"), WordB>>}, canon |-> "lo 15 1999"],
       [pats |-> {<<WordB, Lit("aepd"), WordB>>}, canon |-> "aepd"] >>

\* the offset of the leftmost match in qn of the k-th synonym pattern
SynonymOffset(k, qn) == Min({i \in 0..Len(qn) : \E p \in _SYNONYMS[k].pats : MatchEnds(p, 1, qn, i) # {}})

\* a variant of _apply_synonyms that returns the term of the pattern whose match
\* sits leftmost in the question
_apply_synonyms_leftmost(qn) ==
    LET hits == {k \in 1..Len(_SYNONYMS) : Search(_SYNONYMS[k].pats, qn)}
    IN  IF hits = {} THEN None
        ELSE _SYNONYMS[CHOOSE k \in hits : \A j \in hits : SynonymOffset(k, qn) <= SynonymOffset(j, qn)].canon

\* the canonical term of the first pattern, in list order, that matches qn
_apply_synonyms(qn) ==
    LET hits == {k \in 1..Len(_SYNONYMS) : Search(_SYNONYMS[k].pats, qn)}
    IN  IF hits = {} THEN None ELSE _SYNONYMS[Min(hits)].canon

\* the offsets i of q where re.search(r'"([^"]+)"', q) can match: a quote, at least
\* one character that is no quote, a quote
QuoteStarts(q) ==
    {i \in 1..Len(q) : At(q, i) = "\"" /\ \E j \in (i + 2)..Len(q) :
        At(q, j) = "\"" /\ \A m \in (i + 1)..(j - 1) : At(q, m) # "\""}

\* group(1) of the leftmost such match
FirstQuoted(q) ==
    LET i == Min(QuoteStarts(q))
        j == Min({k \in (i + 2)..Len(q) : At(q, k) = "\""})
    IN  SubSeq(q, i + 1, j - 1)

_doc_term_from_question(q) ==
    IF ~Falsy(_apply_synonyms(_norm(q))) THEN _apply_synonyms(_norm(q))
    ELSE IF QuoteStarts(q) # {} THEN _norm(FirstQuoted(q))
    ELSE ""

\* a variant of Q_RGPD that returns the node and orders by it
Q_RGPD_node ==
    "MATCH (d:Documento)-[:MENCIONA]->(e:Entidad)\n"
    \o "WHERE toLower(e.nombre) CONTAINS 'rgpd' OR toLower(coalesce(e.norm,e.nombre)) CONTAINS '2016/679'\n"
    \o "RETURN d\n"
    \o "ORDER BY d"

Q_RGPD ==
    "MATCH (d:Documento)-[:MENCIONA]->(e:Entidad)\n"
    \o "WHERE toLower(e.nombre) CONTAINS 'rgpd' OR toLower(coalesce(e.norm,e.nombre)) CONTAINS '2016/679'\n"
    \o "RETURN DISTINCT d.id AS id, d.titulo AS titulo\n"
    \o "ORDER BY titulo"

Q_AEPD ==
    "MATCH (d:Documento)-[:MENCIONA]->(e:Entidad)\n"
    \o "WHERE toLower(e.nombre) CONTAINS 'aepd'\n"
    \o "RETURN DISTINCT d.id AS id, d.titulo AS titulo\n"
    \o "ORDER BY titulo"

Q_VIGENTE ==
    "MATCH (d:Documento)\n"
    \o "WHERE coalesce(d.vigente,true) = true\n"
    \o "RETURN DISTINCT d.id AS id, d.titulo AS titulo\n"
    \o "ORDER BY titulo"

Q_PROTECCION ==
    "MATCH (d:Documento)-[:TRATA_SOBRE]->(t:Tema)\n"
    \o "WHERE toLower(t.nombre) CONTAINS 'proteccion' AND toLower(t.nombre) CONTAINS 'datos'\n"
    \o "RETURN DISTINCT d.id AS id, d.titulo AS titulo\n"
    \o "ORDER BY titulo"

Q_MENCION(id_like, term) ==
    "MATCH (d:Documento)-[:MENCIONA_DOC|MENCIONA]->(x)\n"
    \o "WHERE toLower(x.id) CONTAINS '" \o id_like \o "'\n"
    \o "   OR toLower(coalesce(x.titulo, x.nombre)) CONTAINS '" \o term \o "'\n"
    \o "RETURN DISTINCT d.id AS id, d.titulo AS titulo\n"
    \o "ORDER BY titulo"

Q_MODIFICA ==
    "MATCH (a:Documento)-[:MODIFICA]->(b:Documento)\n"
    \o "RETURN a.id AS origen, b.id AS destino, 'MODIFICA' AS relacion\n"
    \o "ORDER BY origen"

Q_DEROGA ==
    "MATCH (a:Documento)-[:DEROGA]->(b:Documento)\n"
    \o "RETURN a.id AS origen, b.id AS destino, 'DEROGA' AS relacion\n"
    \o "ORDER BY origen"

Q_ARTICULO(id_like, term) ==
    "MATCH (d:Documento)-[:TIENE_ARTICULO]->(a:Articulo)\n"
    \o "WHERE toLower(d.id) CONTAINS '" \o id_like \o "' OR toLower(d.titulo) CONTAINS '" \o term \o "'\n"
    \o "RETURN d.id AS doc, a.numero AS numero, a.titulo AS titulo\n"
    \o "ORDER BY toInteger(coalesce(a.numero,'0')) ASC"

Q_TRATA ==
    "MATCH (d:Documento)-[:TRATA_SOBRE]->(t:Tema)\n"
    \o "WHERE toLower(t.nombre) CONTAINS 'proteccion' AND toLower(t.nombre) CONTAINS 'datos'\n"
    \o "RETURN d.id AS id, d.titulo AS titulo\n"
    \o "ORDER BY titulo"

\* the sentinel query of a question no rule recognizes
Q_NO_RECONOCIDA == "RETURN 'Pregunta no reconocida' AS aviso"

\* a variant of _rules that tests the verb roots before the keyword patterns
_rules_roots_first(q) ==
    LET qn == _norm(q)
        term == _doc_term_from_question(q)
        id_like == replace(term, " ", "-")
    IN  IF _has_root_mencion(q) THEN Q_MENCION(id_like, term)
        ELSE IF _has_root_modific(q) THEN Q_MODIFICA
        ELSE IF _has_root_derog(q) THEN Q_DEROGA
        ELSE IF _has_root_articul(q) THEN Q_ARTICULO(id_like, term)
        ELSE IF Contains(qn, "rgpd") \/ Contains(qn, "gdpr") \/ Contains(qn, "reglamento 2016 679") THEN Q_RGPD
        ELSE IF Contains(qn, "aepd") \/ Contains(qn, "agencia espanola de proteccion de datos") THEN Q_AEPD
        ELSE IF Contains(qn, "vigent") \/ Contains(qn, "actual") THEN Q_VIGENTE
        ELSE IF Contains(qn, "proteccion de datos") \/ Contains(qn, "protección de datos") THEN Q_PROTECCION
        ELSE IF Contains(qn, "proteccion de datos") \/ _has_root_trat(q) THEN Q_TRATA
        ELSE Q_NO_RECONOCIDA

\* a variant of _rules that returns the empty text when no rule matches
_rules_no_sentinel(q) ==
    LET qn == _norm(q)
        term == _doc_term_from_question(q)
        id_like == replace(term, " ", "-")
    IN  IF Contains(qn, "rgpd") \/ Contains(qn, "gdpr") \/ Contains(qn, "reglamento 2016 679") THEN Q_RGPD
        ELSE IF Contains(qn, "aepd") \/ Contains(qn, "agencia espanola de proteccion de datos") THEN Q_AEPD
        ELSE IF Contains(qn, "vigent") \/ Contains(qn, "actual") THEN Q_VIGENTE
        ELSE IF Contains(qn, "proteccion de datos") \/ Contains(qn, "protección de datos") THEN Q_PROTECCION
        ELSE IF _has_root_mencion(q) THEN Q_MENCION(id_like, term)
        ELSE IF _has_root_modific(q) THEN Q_MODIFICA
        ELSE IF _has_root_derog(q) THEN Q_DEROGA
        ELSE IF _has_root_articul(q) THEN Q_ARTICULO(id_like, term)
        ELSE IF Contains(qn, "proteccion de datos") \/ _has_root_trat(q) THEN Q_TRATA
        ELSE ""

\* _rules(q): the first rule, in the order of the code, that the question matches
_rules(q) ==
    LET qn == _norm(q)
        term == _doc_term_from_question(q)
        id_like == replace(term, " ", "-")
    IN  IF Contains(qn, "rgpd") \/ Contains(qn, "gdpr") \/ Contains(qn, "reglamento 2016 679") THEN Q_RGPD
        ELSE IF Contains(qn, "aepd") \/ Contains(qn, "agencia espanola de proteccion de datos") THEN Q_AEPD
        ELSE IF Contains(qn, "vigent") \/ Contains(qn, "actual") THEN Q_VIGENTE
        ELSE IF Contains(qn, "proteccion de datos") \/ Contains(qn, "protección de datos") THEN Q_PROTECCION
        ELSE IF _has_root_mencion(q) THEN Q_MENCION(id_like, term)
        ELSE IF _has_root_modific(q) THEN Q_MODIFICA
        ELSE IF _has_root_derog(q) THEN Q_DEROGA
        ELSE IF _has_root_articul(q) THEN Q_ARTICULO(id_like, term)
        ELSE IF Contains(qn, "proteccion de datos") \/ _has_root_trat(q) THEN Q_TRATA
        ELSE Q_NO_RECONOCIDA

\* gen(q) with no doc_id
rules_gen(q) == _rules(q)

\* gen_ex(q, mode): (cypher, engine)
rules_gen_ex(q) == <<_rules(q), "rules">>

(***************************************************************************)
(* The safety validator (the same text in the page and in the harness)     *)
(***************************************************************************)

\* the deny-list `bad`
BadTokens == {" create ", " merge ", " delete ", " set ", " detach ", " drop ", " load csv", " call db.", " call apoc.create"}

\* a variant of is_safe_cypher whose deny list has no procedure call
is_safe_cypher_no_call(cy) == ~ContainsAny(" " \o lower(cy) \o " ", BadTokens \ {" call db.", " call apoc.create"})

\* is_safe_cypher(cy): no token of the deny list in the padded, lower-cased text
is_safe_cypher(cy) == ~ContainsAny(" " \o lower(cy) \o " ", BadTokens)

(***************************************************************************)
(* The query post-processor                                                *)
(***************************************************************************)

\* re.sub(pat, r, s) for a pattern followed by a negative lookahead: Look(s, e)
\* holds when the lookahead lets a match ending at offset e stand
ReSub(s, pat, Look(_, _), r) ==
    LET starts == {i \in 0..Len(s) : MatchEnds(pat, 1, s, i) # {} /\ Look(s, Max(MatchEnds(pat, 1, s, i)))}
    IN  SubFrom(s, 0, [i \in starts |-> Max(MatchEnds(pat, 1, s, i))], [i \in starts |-> r])

\* (?!\s*(?:\.|\s+AS)) under re.IGNORECASE
NotFieldOrAs(s, e) ==
    /\ CharAfter(s, SpaceRunEnd(s, e)) # "."
    /\ ~\E j \in SpaceRun(s, e, 1) : IMatchAt(s, j, "as")

\* (?!\s*\.)
NotField(s, e) == CharAfter(s, SpaceRunEnd(s, e)) # "."

\* where \bMATCH\s*\(\s* ends when it starts at offset i (-1: no match)
MatchParenEnd(cy, i) ==
    LET pre == MatchEnds(<<WordB, ILit("match"), Ws0, Lit("("), Ws0>>, 1, cy, i)
    IN  IF pre = {} THEN -1 ELSE Max(pre)

\* (?is)\bMATCH\s*\(\s*([a-zA-Z][\w]*)\s*:\s*Documento\b matches at offset i
DocMatchAt(cy, i) ==
    /\ MatchParenEnd(cy, i) >= 0
    /\ IsAsciiLetter(CharAfter(cy, MatchParenEnd(cy, i)))
    /\ MatchEnds(<<Ws0, Lit(":"), Ws0, ILit("documento"), WordB>>, 1, cy, WordRunEnd(cy, MatchParenEnd(cy, i))) # {}

\* group(1) of the leftmost match: the alias bound to the Documento node
DocVar(cy) ==
    LET i == Min({k \in 0..Len(cy) : DocMatchAt(cy, k)})
    IN  SubSeq(cy, MatchParenEnd(cy, i) + 1, WordRunEnd(cy, MatchParenEnd(cy, i)))

ReturnFields(var) == var \o ".id AS id, " \o var \o ".titulo AS titulo"

_normalize_return(cy) ==
    IF \A k \in 0..Len(cy) : ~DocMatchAt(cy, k) THEN cy
    ELSE LET var == DocVar(cy)
             v == ILit(lower(var))
             cy1 == ReSub(cy, <<WordB, ILit("return"), Ws1, ILit("distinct"), Ws1, v, WordB>>, NotFieldOrAs,
                          "RETURN DISTINCT " \o ReturnFields(var))
             cy2 == ReSub(cy1, <<WordB, ILit("return"), Ws1, v, WordB>>, NotFieldOrAs,
                          "RETURN " \o ReturnFields(var))
             cy3 == ReSub(cy2, <<ILit(","), Ws0, v, WordB>>, NotFieldOrAs, ", " \o ReturnFields(var))
         IN  ReSub(cy3, <<WordB, ILit("order"), Ws1, ILit("by"), Ws1, v, WordB>>, NotField, "ORDER BY titulo")

\* [A-Za-z0-9_]
IsAsciiWord(c) == IsAsciiLetter(c) \/ (c # "" /\ (IsIn(c, DigitChars) \/ c = "_"))

\* where \(\s* ends when it starts at offset i (-1: no match)
ParenEnd(cy, i) == IF MatchAt(cy, i, "(") THEN SpaceRunEnd(cy, i + 1) ELSE -1

\* where \(\s*([a-zA-Z][\w]*)\s*:\s* ends when it starts at offset i (-1: no match)
AliasColonEnd(cy, i) ==
    IF ParenEnd(cy, i) >= 0 /\ IsAsciiLetter(CharAfter(cy, ParenEnd(cy, i)))
    THEN LET post == MatchEnds(<<Ws0, Lit(":"), Ws0>>, 1, cy, WordRunEnd(cy, ParenEnd(cy, i)))
         IN  IF post = {} THEN -1 ELSE Max(post)
    ELSE -1

\* \(\s*([a-zA-Z][\w]*)\s*:\s*([A-Z][\w]*)\s*\) matches at offset i
DeclAt(cy, i) ==
    /\ AliasColonEnd(cy, i) >= 0
    /\ IsAsciiUpper(CharAfter(cy, AliasColonEnd(cy, i)))
    /\ MatchEnds(<<Ws0, Lit(")")>>, 1, cy, WordRunEnd(cy, AliasColonEnd(cy, i))) # {}

DeclAlias(cy, i) == SubSeq(cy, ParenEnd(cy, i) + 1, WordRunEnd(cy, ParenEnd(cy, i)))

DeclLabel(cy, i) == SubSeq(cy, AliasColonEnd(cy, i) + 1, WordRunEnd(cy, AliasColonEnd(cy, i)))

\* the offsets of the declarations (alias:Label) of cy
Decls(cy) == {i \in 0..Len(cy) : DeclAt(cy, i)}

\* label2alias.get(label): the alias of the first declaration of the label
LabelAlias(cy, label) ==
    LET ds == {i \in Decls(cy) : DeclLabel(cy, i) = label}
    IN  IF ds = {} THEN None ELSE DeclAlias(cy, Min(ds))

\* where the [A-Z][A-Za-z0-9_]* of a match starting at offset i ends
LabelRunEnd(cy, i) == Max({e \in (i + 1)..Len(cy) : \A m \in (i + 2)..e : IsAsciiWord(At(cy, m))})

\* \b([A-Z][A-Za-z0-9_]*)\.(\w+)\b matches at offset i
LabelPropAt(cy, i) ==
    /\ Boundary(cy, i)
    /\ IsAsciiUpper(CharAfter(cy, i))
    /\ CharAfter(cy, LabelRunEnd(cy, i)) = "."
    /\ IsWordChar(CharAfter(cy, LabelRunEnd(cy, i) + 1))

_fix_label_props_to_alias(cy) ==
    LET starts == {i \in 0..Len(cy) : LabelPropAt(cy, i)}
        dot == [i \in starts |-> LabelRunEnd(cy, i)]
        ends == [i \in starts |-> WordRunEnd(cy, dot[i] + 1)]
        alias == [i \in starts |-> LabelAlias(cy, SubSeq(cy, i + 1, dot[i]))]
        repl == [i \in starts |->
                    IF Falsy(alias[i]) THEN SubSeq(cy, i + 1, ends[i])
                    ELSE alias[i] \o "." \o SubSeq(cy, dot[i] + 2, ends[i])]
    IN  SubFrom(cy, 0, ends, repl)

\* \(\s*([a-zA-Z]\w*)\s*:\s*Documento\b matches at offset i (case-sensitive)
DocDeclAt(cy, i) ==
    /\ AliasColonEnd(cy, i) >= 0
    /\ MatchEnds(<<Lit("Documento"), WordB>>, 1, cy, AliasColonEnd(cy, i)) # {}

\* the distinct aliases re.findall returns
DocAliases(cy) == {DeclAlias(cy, i) : i \in {k \in 0..Len(cy) : DocDeclAt(cy, k)}}

\* what is left of s when everything from the first match of pat on is cut
CutFrom(s, pat) ==
    LET starts == {i \in 0..Len(s) : MatchEnds(pat, 1, s, i) # {}}
    IN  IF starts = {} THEN s ELSE SubSeq(s, 1, Min(starts))

_enforce_document_return(cy) ==
    IF Cardinality(DocAliases(cy)) # 1 THEN cy
    ELSE LET a == CHOOSE x \in DocAliases(cy) : TRUE
             ret == <<WordB, ILit("return"), WordB>>
             ord == <<WordB, ILit("order"), Ws1, ILit("by"), WordB>>
             cy2 == IF Search({ret}, strip(cy))
                    THEN CutFrom(strip(cy), ret) \o "RETURN DISTINCT " \o ReturnFields(a)
                    ELSE strip(cy)
         IN  IF Search({ord}, cy2) THEN CutFrom(cy2, ord) \o "ORDER BY titulo"
             ELSE cy2 \o "\nORDER BY titulo"

(***************************************************************************)
(* The keyword fallbacks (the same text in the page and in the harness)    *)
(***************************************************************************)

_lo3_where(prefix) ==
    prefix \o "\n"
    \o "  toLower(d2.id) CONTAINS 'boe-a-2018-16673'\n"
    \o "  OR toLower(d2.titulo) CONTAINS 'lo 3 2018'\n"
    \o "  OR toLower(d2.titulo) CONTAINS 'ley organica 3/2018'\n"
    \o "  OR toLower(d2.titulo) CONTAINS 'ley orgánica 3/2018'"

_build_theme_fallback_fulltext(term, keep_modifica, keep_vigente) ==
    "CALL db.index.fulltext.queryNodes('ft_articulos', '" \o term \o "~') YIELD node AS a\n"
    \o "MATCH (d:Documento)-[:TIENE_ARTICULO]->(a)\n"
    \o (IF keep_modifica THEN "MATCH (d)-[:MODIFICA]->(d2:Documento)\n" \o _lo3_where("WHERE") \o "\n" ELSE "")
    \o (IF keep_vigente THEN "WITH DISTINCT d\n" \o "WHERE coalesce(d.vigente,true) = true\n" ELSE "")
    \o "RETURN DISTINCT d.id AS id, d.titulo AS titulo\n"
    \o "ORDER BY titulo"

Q_VIGENTES_DEROGAN_RGPD ==
    "MATCH (d:Documento)-[:DEROGA]->(:Documento)\n"
    \o "WHERE coalesce(d.vigente,true) = true\n"
    \o "WITH DISTINCT d\n"
    \o "OPTIONAL MATCH (d)-[:MENCIONA_DOC]->(x:Documento)\n"
    \o "WHERE toLower(x.id) CONTAINS 'celex-32016r0679'\n"
    \o "   OR toLower(x.id) CONTAINS 'reglamento-ue-2016'\n"
    \o "   OR toLower(x.titulo) CONTAINS '2016/679'\n"
    \o "OPTIONAL MATCH (d)-[:MENCIONA]->(e:Entidad)\n"
    \o "WHERE toLower(coalesce(e.norm,e.nombre)) CONTAINS 'rgpd'\n"
    \o "WITH d, (x IS NOT NULL) OR (e IS NOT NULL) AS menciona_rgpd\n"
    \o "WHERE menciona_rgpd\n"
    \o "RETURN DISTINCT d.id AS id, d.titulo AS titulo\n"
    \o "ORDER BY titulo"

\* the characters of the class ['\"“”‘’«»]; the four typographic quotes cannot be
\* written in a string of this module, and no text of the model holds one
QuoteChars == "'\"«»"

\* where the maximal run of characters outside QuoteChars starting at offset g ends
PlainRunEnd(s, g) == Max({e \in g..Len(s) : \A m \in (g + 1)..e : ~IsIn(At(s, m), QuoteChars)})

\* group(1) = s[lo:hi] of sobre\s+['\"“”‘’«»]?([^'\"“”‘’«»]+) matched at offset i, as
\* <<lo, hi>>, or <<>> when it does not match there. \s+ and the optional quote are
\* greedy: all the whitespace and the quote are taken if a group can follow; else
\* the group starts at the quote's place, which fails; else \s+ gives back one
\* whitespace character, with which the group starts
SobreGroup(s, i) ==
    IF ~MatchAt(s, i, "sobre") \/ SpaceRunEnd(s, i + 5) = i + 5 THEN <<>>
    ELSE LET g == SpaceRunEnd(s, i + 5)
         IN  IF CharAfter(s, g) # "" /\ IsIn(CharAfter(s, g), QuoteChars) /\ PlainRunEnd(s, g + 1) > g + 1
                 THEN <<g + 1, PlainRunEnd(s, g + 1)>>
             ELSE IF PlainRunEnd(s, g) > g THEN <<g, PlainRunEnd(s, g)>>
             ELSE IF g - 1 > i + 5 THEN <<g - 1, PlainRunEnd(s, g - 1)>>
             ELSE <<>>

\* the term of the full-text fallback: m.group(1).strip() if m else "consentimiento"
SobreTerm(qn) ==
    LET starts == {i \in 0..Len(qn) : SobreGroup(qn, i) # <<>>}
    IN  IF starts = {} THEN "consentimiento"
        ELSE strip(SubSeq(qn, SobreGroup(qn, Min(starts))[1] + 1, SobreGroup(qn, Min(starts))[2]))

_fallback_from_question(q) ==
    LET qn == strip(lower(q))
    IN  IF Contains(qn, "modific")
           /\ ContainsAny(qn, {"lo 3/2018", "lo 3 2018", "ley organica 3/2018", "ley orgánica 3/2018"})
        THEN _build_theme_fallback_fulltext(SobreTerm(qn), TRUE, FALSE)
        ELSE IF Contains(qn, "vigen") /\ Contains(qn, "derog")
                /\ ContainsAny(qn, {"rgpd", "2016/679", "reglamento 2016/679", "gdpr"})
        THEN Q_VIGENTES_DEROGAN_RGPD
        ELSE None

(***************************************************************************)
(* The model generator: how the response of the external model is read     *)
(***************************************************************************)

\* the sentinel the model answers when it cannot generate
FALLBACK == "FALLBACK"

\* the code fence, three backticks; a string of this module cannot hold a
\* backtick, so the character ^ stands for it in every response text
FENCE == "^^^"

\* the offsets from which ([\s\S]+?)``` can match: a closing fence follows at
\* least one character later
Closable(c, g) == \E e \in (g + 1)..Len(c) : MatchAt(c, e, FENCE)

\* where the lazy group starting at offset g ends
CloseAt(c, g) == Min({e \in (g + 1)..Len(c) : MatchAt(c, e, FENCE)})

\* the offsets where the group of ```(?:cypher)?\s*([\s\S]+?)``` may start for a
\* fence opening at offset i, after the optional word (taken: a = i + 9, not
\* taken: a = i + 3) and any part of the whitespace that follows it
FenceStarts(c, a) == {g \in SpaceRun(c, a, 0) : Closable(c, g)}

\* group(1) = c[lo:hi] for the fence at offset i, as <<lo, hi>>, or <<>>. The
\* optional word and \s* are greedy: the word is taken first, the longest run of
\* whitespace first
FenceGroup(c, i) ==
    IF ~MatchAt(c, i, FENCE) THEN <<>>
    ELSE IF IMatchAt(c, i + 3, "cypher") /\ FenceStarts(c, i + 9) # {}
        THEN <<Max(FenceStarts(c, i + 9)), CloseAt(c, Max(FenceStarts(c, i + 9)))>>
    ELSE IF FenceStarts(c, i + 3) # {}
        THEN <<Max(FenceStarts(c, i + 3)), CloseAt(c, Max(FenceStarts(c, i + 3)))>>
    ELSE <<>>

\* re.search(r"```(?:cypher)?\s*([\s\S]+?)```", content, flags=re.IGNORECASE):
\* group(1) of the leftmost match, None without a match
Fenced(c) ==
    LET starts == {i \in 0..Len(c) : FenceGroup(c, i) # <<>>}
    IN  IF starts = {} THEN None
        ELSE SubSeq(c, FenceGroup(c, Min(starts))[1] + 1, FenceGroup(c, Min(starts))[2])

\* any(tok in content.lower() for tok in ["match", "return"])
looks_cypher(c) == ContainsAny(lower(c), {"match", "return"})

\* the page's _gpt_nl2cypher, from the response text on
PageReadResponse(c) ==
    IF Fenced(c) # None THEN strip(Fenced(c))
    ELSE IF Contains(c, "FALLBACK") THEN FALLBACK
    ELSE IF looks_cypher(c) THEN strip(c) ELSE FALLBACK

\* the harness's gpt_nl2cypher, from the response text on
EvalReadResponse(c) ==
    IF Fenced(c) # None THEN strip(Fenced(c))
    ELSE IF looks_cypher(c) THEN strip(c) ELSE FALLBACK

(***************************************************************************)
(* The inputs of the model                                                 *)
(***************************************************************************)

\* the quick examples of the page
_examples ==
    << "¿Qué documentos mencionan RGPD?",
       "Documentos que mencionan la Ley Orgánica 3/2018",
       "Documentos que tratan sobre Protección de Datos vigentes",
       "¿Qué deroga LO 3/2018?",
       "¿Quién deroga LO 15/1999?",
       "¿Qué artículos contiene LO 3/2018?",
       "Documentos que modifiquen LO 3/2018 y traten sobre consentimiento",
       "Documentos vigentes que derogan y mencionan RGPD" >>

\* the example buttons the model presses
ExampleChoice == {1, 8}

\* a question no rule recognizes, one whose quoted term reaches the rules query
\* carrying a deny-list word, and one the full-text keyword fallback answers
Q_HOLA == "hola"
Q_QUOTED_SET == "¿Qué documentos mencionan \"a set b\"?"
Q_MODIFICAN_SOBRE == "Documentos que modifican la LO 3/2018 sobre consentimiento"

\* the texts typed into the question box
TypedInputs == {"", " hola ", Q_QUOTED_SET, Q_MODIFICAN_SOBRE}

PageInputs == TypedInputs \cup {_examples[k] : k \in ExampleChoice}

\* the questions of the evaluation sheet
EvalQuestions == {_examples[k] : k \in ExampleChoice} \cup {Q_HOLA, Q_QUOTED_SET, Q_MODIFICAN_SOBRE}

\* the replies of the language model (^ stands for the backtick)
R_NODE == "^^^cypher\nMATCH (d:Documento) RETURN d\n^^^"
R_WRITE == "^^^cypher\nMATCH (n) DETACH DELETE n\n^^^"
R_CANNOT == "FALLBACK"
R_EMPTY == "^^^ ^^^"
R_MIXED == "FALLBACK: no match"

Responses == {R_NODE, R_WRITE, R_CANNOT, R_EMPTY, R_MIXED}

\* what a call of the model generator can meet: no API key, no client library,
\* a failed API call, or a reply
ModelOutcomes ==
    {[kind |-> "nokey", content |-> ""], [kind |-> "noclient", content |-> ""],
     [kind |-> "api_error", content |-> ""]}
    \cup {[kind |-> "content", content |-> c] : c \in Responses}

\* the largest row count the graph answers with in the model
MaxRowCount == 2

\* run_cypher(cy).to_data_frame(): RAISES when it fails, else the number of rows
RAISES == -1
Outcomes == {RAISES} \cup (0..MaxRowCount)

(***************************************************************************)
(* The pure functions on the texts of the model, tabulated                 *)
(***************************************************************************)

Range(f) == {f[a] : a \in DOMAIN f}

\* the questions Generate and a trial work on: the inputs, as typed and stripped
Questions == {strip(t) : t \in PageInputs \cup EvalQuestions} \cup PageInputs \cup EvalQuestions

\* str.strip() of the inputs, the generators on the questions, the readers on the
\* replies of the language model
GenTables ==
    [strip |-> [t \in PageInputs \cup EvalQuestions |-> strip(t)],
     rules |-> [q \in Questions |-> rules_gen(q)],
     rules_ex |-> [q \in Questions |-> rules_gen_ex(q)],
     fallback |-> [q \in Questions |-> _fallback_from_question(q)],
     page_read |-> [c \in Responses |-> PageReadResponse(c)],
     eval_read |-> [c \in Responses |-> EvalReadResponse(c)]]

\* every text a generator of t can hand to the post-processors
GeneratedBy(t) ==
    (Range(t.rules) \cup Range(t.fallback) \cup Range(t.page_read) \cup Range(t.eval_read)
        \cup {"", FALLBACK}) \ {None}

WithNorm(t) == t @@ [norm |-> [cy \in GeneratedBy(t) |-> _normalize_return(cy)]]

WithFix(t) == t @@ [fix |-> [cy \in Range(t.norm) |-> _fix_label_props_to_alias(cy)]]

WithEnforce(t) == t @@ [enforce |-> [cy \in Range(t.fix) |-> _enforce_document_return(cy)]]

\* every text of t that can reach the validator or the graph
RunnableBy(t) == Range(t.norm) \cup Range(t.fix) \cup Range(t.enforce)

WithSafe(t) ==
    t @@ [safe |-> [cy \in RunnableBy(t) |-> is_safe_cypher(cy)],
          blank |-> [cy \in RunnableBy(t) |-> strip(cy) = ""]]

\* the tables of the pure functions: a handler reads Memo.norm[cy] for
\* _normalize_return(cy), Memo.safe[cy] for is_safe_cypher(cy), and so on
Memo == WithSafe(WithEnforce(WithFix(WithNorm(GenTables))))

\* the answers of the graph to the queries of S during one handler; the sentinel
\* query reads no data: it answers its one constant row, or the call fails; the
\* text FALLBACK is no Cypher, and the call fails
Graphs(S) ==
    {g \in [S -> Outcomes] :
        /\ Q_NO_RECONOCIDA \in S => g[Q_NO_RECONOCIDA] \in {RAISES, 1}
        /\ FALLBACK \in S => g[FALLBACK] = RAISES}

(***************************************************************************)
(* pages/0_Consulta.py: the query page                                     *)
(***************************************************************************)

VARIABLES
    pc,             \* which program runs, and the harness's position in main
    q_input,        \* session_state["q_input"]: the text of the question box
    engine,         \* the option of the engine radio
    last_cypher,    \* session_state["last_cypher"]
    last_engine,    \* session_state["last_engine"]
    last_question,  \* session_state["last_question"]
    op,             \* what the last handler or loop iteration did
    dfq,            \* the question sheet of the harness
    engines,        \* args.engines
    row_i,          \* the row of dfq main is at
    eng_i,          \* the engine run_eval_row is at
    outputs,        \* the list outputs of run_eval_row
    all_rows,       \* the list all_rows of main
    results_jsonl,  \* the lines of results/results.jsonl
    fn_in,          \* the argument of the pure function under check
    fn_out          \* its result

session == <<q_input, last_cypher, last_engine, last_question>>
harness == <<dfq, engines, row_i, eng_i, outputs, all_rows, results_jsonl>>
fn == <<fn_in, fn_out>>
vars == <<pc, q_input, engine, last_cypher, last_engine, last_question, op, dfq, engines, row_i,
          eng_i, outputs, all_rows, results_jsonl, fn_in, fn_out>>

\* the options of the engine radio
AUTO == "Auto (GPT+Rescate)"
SOLO_REGLAS == "Solo Reglas"
SOLO_GPT == "Solo GPT"
EngineOptions == <<AUTO, SOLO_REGLAS, SOLO_GPT>>

\* session_state["openai_model_ui"]
openai_model_ui == "gpt-4o-mini"

\* str(e) of an exception
ExcText == "<exception>"

\* the trace of a handler: the generators it called and what each returned, the
\* queries it handed to run_cypher, its log_event calls and its messages, in order; db holds the
\* graph's answers; rescue holds the rescue step's view: the query and tag (or
\* flag) it met, the post-processed rules query, and the query and tag it left
NoRescue ==
    [entered |-> FALSE, chosen |-> "", tag |-> "", candidate |-> "", kept |-> "", kept_tag |-> ""]

NoOp ==
    [name |-> "", calls |-> <<>>, yields |-> <<>>, submitted |-> <<>>, events |-> <<>>, msgs |-> <<>>, db |-> <<>>,
     rescue |-> NoRescue]

Msg(k, t) == [kind |-> k, text |-> t]

\* log_event(event_type, question, engine, model, cypher, status, error, rows);
\* rows is the set of the number given, None being the empty set
log_event(event_type, question, eng, cypher, status, error, rows) ==
    [type |-> event_type, question |-> question, engine |-> eng,
     model |-> IF eng # SOLO_REGLAS THEN openai_model_ui ELSE None,
     cypher |-> cypher, status |-> status, error |-> error, rows |-> rows]

\* _gpt_nl2cypher(question, model_hint) meeting mo
_gpt_nl2cypher(tab, mo) ==
    IF mo.kind = "nokey" THEN [raised |-> FALSE, value |-> FALLBACK, msgs |-> <<>>]
    ELSE IF mo.kind = "noclient" THEN [raised |-> TRUE, value |-> "", msgs |-> <<>>]
    ELSE IF mo.kind = "api_error"
        THEN [raised |-> FALSE, value |-> FALLBACK,
              msgs |-> <<Msg("warning", "GPT no disponible (" \o openai_model_ui \o "): " \o ExcText)>>]
    ELSE [raised |-> FALSE, value |-> tab.page_read[mo.content], msgs |-> <<>>]

\* `not cy or cy == "FALLBACK"`
NoQuery(cy) == Falsy(cy) \/ cy = FALLBACK

\* the nested _rules(q) of _generate
_generate_rules(tab, q) == [cy |-> tab.rules_ex[q][1], used |-> "rules:" \o tab.rules_ex[q][2]]

\* the branch `engine_sel == "Solo Reglas"`
GenSoloReglas(tab, question) ==
    [raised |-> FALSE, cy |-> _generate_rules(tab, question).cy, used |-> _generate_rules(tab, question).used,
     calls |-> <<"rules">>, yields |-> <<_generate_rules(tab, question).cy>>, msgs |-> <<>>]

\* the branch `engine_sel == "Solo GPT"`
GenSoloGpt(tab, question, mo) ==
    [raised |-> _gpt_nl2cypher(tab, mo).raised, cy |-> _gpt_nl2cypher(tab, mo).value, used |-> "openai",
     calls |-> <<"gpt">>, yields |-> IF _gpt_nl2cypher(tab, mo).raised THEN <<>> ELSE <<_gpt_nl2cypher(tab, mo).value>>,
     msgs |-> _gpt_nl2cypher(tab, mo).msgs]

\* a variant of GenAuto that calls the rules whatever the model returned
GenAutoRulesAlways(tab, question, mo) ==
    LET g == _gpt_nl2cypher(tab, mo)
    IN  IF ~g.raised
        THEN [raised |-> FALSE, cy |-> _generate_rules(tab, question).cy,
              used |-> "auto(" \o _generate_rules(tab, question).used \o ")",
              calls |-> <<"gpt", "rules">>, yields |-> <<g.value, _generate_rules(tab, question).cy>>,
              msgs |-> g.msgs]
        ELSE [raised |-> g.raised, cy |-> g.value, used |-> "auto(gpt)", calls |-> <<"gpt">>,
              yields |-> <<>>, msgs |-> g.msgs]

\* the branch of "Auto (GPT+Rescate)": the model first, then the rules
GenAuto(tab, question, mo) ==
    LET g == _gpt_nl2cypher(tab, mo)
    IN  IF ~g.raised /\ NoQuery(g.value)
        THEN [raised |-> FALSE, cy |-> _generate_rules(tab, question).cy,
              used |-> "auto(" \o _generate_rules(tab, question).used \o ")",
              calls |-> <<"gpt", "rules">>, yields |-> <<g.value, _generate_rules(tab, question).cy>>,
              msgs |-> g.msgs]
        ELSE [raised |-> g.raised, cy |-> g.value, used |-> "auto(gpt)", calls |-> <<"gpt">>,
              yields |-> IF g.raised THEN <<>> ELSE <<g.value>>, msgs |-> g.msgs]

GenFirst(tab, engine_sel, question, mo) ==
    IF engine_sel = SOLO_REGLAS THEN GenSoloReglas(tab, question)
    ELSE IF engine_sel = SOLO_GPT THEN GenSoloGpt(tab, question, mo)
    ELSE GenAuto(tab, question, mo)

\* `if not cy or cy == "FALLBACK": fb = _fallback_from_question(question) ...`
GenFallback(tab, question, g) ==
    IF ~NoQuery(g.cy) THEN g
    ELSE IF Falsy(tab.fallback[question])
        THEN [g EXCEPT !.calls = @ \o <<"fallback">>, !.yields = @ \o <<tab.fallback[question]>>]
    ELSE [g EXCEPT !.calls = @ \o <<"fallback">>, !.yields = @ \o <<tab.fallback[question]>>,
                   !.cy = tab.fallback[question], !.used = @ \o "+fallback"]

\* the button Generar
_generate ==
    /\ pc = "page"
    /\ \E tab \in {Memo} :
       LET question == tab.strip[q_input]
       IN  IF question = ""
           THEN /\ op' = [NoOp EXCEPT !.name = "generate",
                                      !.msgs = <<Msg("warning", "Escribe una pregunta.")>>]
                /\ UNCHANGED session
           ELSE \E mo \in ModelOutcomes :
                LET first == GenFirst(tab, engine, question, mo)
                    g == GenFallback(tab, question, first)
                    cy == tab.norm[g.cy]
                IN  IF first.raised
                    THEN /\ last_cypher' = None
                         /\ last_engine' = ""
                         /\ UNCHANGED <<q_input, last_question>>
                         /\ op' = [NoOp EXCEPT
                                !.name = "generate", !.calls = first.calls, !.yields = first.yields,
                                !.events = <<log_event("generate", question, engine, "", "error", ExcText, {})>>,
                                !.msgs = first.msgs \o <<Msg("error", "No pude generar Cypher: " \o ExcText)>>]
                    ELSE /\ last_cypher' = cy
                         /\ last_engine' = g.used
                         /\ last_question' = question
                         /\ UNCHANGED q_input
                         /\ op' = [NoOp EXCEPT
                                !.name = "generate", !.calls = g.calls, !.yields = g.yields, !.msgs = g.msgs,
                                !.events = <<log_event("generate", question, engine, cy,
                                                       IF ~NoQuery(cy) THEN "ok" ELSE "fallback", None, {})>>]
    /\ UNCHANGED <<pc, engine>>
    /\ UNCHANGED harness
    /\ UNCHANGED fn

\* the nested _count_rows(cy_) of _execute: the row count, -1 when the call raises
_count_rows(db, cy) == db[cy]

\* _run_and_show(cy): ran tells whether run_cypher was called; df is None or the
\* set of the number of rows of the data frame, None being the empty set
_run_and_show(tab, db, cy) ==
    IF Falsy(cy) \/ tab.blank[cy]
        THEN [ran |-> FALSE, df |-> {}, how |-> "No hay Cypher para ejecutar."]
    ELSE IF ~tab.safe[cy]
        THEN [ran |-> FALSE, df |-> {},
              how |-> "El Cypher generado contiene operaciones no permitidas (CREATE/MERGE/DELETE/SET...)."]
    ELSE IF db[cy] = RAISES
        THEN [ran |-> TRUE, df |-> {}, how |-> "Error al ejecutar: " \o ExcText]
    ELSE [ran |-> TRUE, df |-> {db[cy]}, how |-> "<n> filas en <ms> ms"]

\* a variant of RescueEnabled that lets the rescue run in every mode
RescueEnabledAlways(engine_sel) == TRUE

\* `if engine == "Auto (GPT+Rescate)":`, the condition of the rescue block
RescueEnabled(engine_sel) == engine_sel = AUTO

\* a variant of ExecuteRescue that rescues on an equal row count too
ExecuteRescueGe(tab, db, q, cy, used) ==
    LET n_first == _count_rows(db, cy)
        cy_rules == tab.norm[tab.rules[q]]
        n_rules == _count_rows(db, cy_rules)
    IN  IF n_first <= 1
        THEN IF n_rules >= n_first
             THEN [cy |-> cy_rules, stored |-> TRUE, used |-> (IF Falsy(used) THEN "auto" ELSE used) \o "→rules",
                   submitted |-> <<cy, cy_rules>>, calls |-> <<"rules">>, yields |-> <<tab.rules[q]>>,
                   msgs |-> <<Msg("info", "Rescate automático: se usó Reglas locales por mejor cobertura de resultados.")>>]
             ELSE [cy |-> cy, stored |-> FALSE, used |-> used, submitted |-> <<cy, cy_rules>>,
                   calls |-> <<"rules">>, yields |-> <<tab.rules[q]>>, msgs |-> <<>>]
        ELSE [cy |-> cy, stored |-> FALSE, used |-> used, submitted |-> <<cy>>, calls |-> <<>>,
              yields |-> <<>>, msgs |-> <<>>]

\* the rescue block of _execute, entered with the stored query cy and tag used
ExecuteRescue(tab, db, q, cy, used) ==
    LET n_first == _count_rows(db, cy)
        cy_rules == tab.norm[tab.rules[q]]
        n_rules == _count_rows(db, cy_rules)
    IN  IF n_first <= 1
        THEN IF n_rules > n_first
             THEN [cy |-> cy_rules, stored |-> TRUE, used |-> (IF Falsy(used) THEN "auto" ELSE used) \o "→rules",
                   submitted |-> <<cy, cy_rules>>, calls |-> <<"rules">>, yields |-> <<tab.rules[q]>>,
                   msgs |-> <<Msg("info", "Rescate automático: se usó Reglas locales por mejor cobertura de resultados.")>>]
             ELSE [cy |-> cy, stored |-> FALSE, used |-> used, submitted |-> <<cy, cy_rules>>,
                   calls |-> <<"rules">>, yields |-> <<tab.rules[q]>>, msgs |-> <<>>]
        ELSE [cy |-> cy, stored |-> FALSE, used |-> used, submitted |-> <<cy>>, calls |-> <<>>,
              yields |-> <<>>, msgs |-> <<>>]

\* a variant of ExecuteQuestion that reads the question box
ExecuteQuestionFromBox(stored, typed) == typed

\* `q = st.session_state.get("last_question") or st.session_state.get("q_input","")`
ExecuteQuestion(stored, typed) == IF Falsy(stored) THEN typed ELSE stored

\* the button Ejecutar
_execute ==
    /\ pc = "page"
    /\ \E tab \in {Memo} :
       LET q == ExecuteQuestion(last_question, q_input)
       IN  IF Falsy(last_cypher)
           THEN /\ op' = [NoOp EXCEPT !.name = "execute",
                                      !.msgs = <<Msg("warning", "Genera primero el Cypher.")>>]
                /\ UNCHANGED session
           ELSE \E db \in Graphs({last_cypher, tab.norm[tab.rules[q]]}) :
                LET r == IF RescueEnabled(engine) THEN ExecuteRescue(tab, db, q, last_cypher, last_engine)
                         ELSE [cy |-> last_cypher, stored |-> FALSE, used |-> last_engine,
                               submitted |-> <<>>, calls |-> <<>>, yields |-> <<>>, msgs |-> <<>>]
                    res == _run_and_show(tab, db, r.cy)
                    ran == IF res.ran THEN <<r.cy>> ELSE <<>>
                IN  /\ last_cypher' = IF r.stored THEN r.cy ELSE last_cypher
                    /\ last_engine' = r.used
                    /\ UNCHANGED <<q_input, last_question>>
                    /\ op' = [NoOp EXCEPT
                            !.name = "execute", !.calls = r.calls, !.yields = r.yields, !.db = db,
                            !.submitted = r.submitted \o ran,
                            !.rescue = [entered |-> RescueEnabled(engine), chosen |-> last_cypher,
                                        tag |-> last_engine, candidate |-> tab.norm[tab.rules[q]],
                                        kept |-> r.cy, kept_tag |-> r.used],
                            !.msgs = r.msgs \o <<Msg(IF res.df = {} THEN "error" ELSE "success", res.how)>>,
                            !.events = <<IF res.df = {}
                                         THEN log_event("execute", q, engine, r.cy, "error", res.how, {})
                                         ELSE log_event("execute", q, engine, r.cy, "ok", None, res.df)>>]
    /\ UNCHANGED <<pc, engine>>
    /\ UNCHANGED harness
    /\ UNCHANGED fn

\* a variant of _clear_query that leaves the stored query in place
_clear_query_keep ==
    /\ pc = "page"
    /\ q_input' = ""
    /\ op' = [NoOp EXCEPT !.name = "clear"]
    /\ UNCHANGED <<pc, engine, last_cypher, last_engine, last_question>>
    /\ UNCHANGED harness
    /\ UNCHANGED fn

\* the button Limpiar: the four keys are popped, and the rerun sets the defaults
_clear_query ==
    /\ pc = "page"
    /\ last_cypher' = None
    /\ last_engine' = ""
    /\ last_question' = ""
    /\ q_input' = ""
    /\ op' = [NoOp EXCEPT !.name = "clear"]
    /\ UNCHANGED <<pc, engine>>
    /\ UNCHANGED harness
    /\ UNCHANGED fn

\* an example button: the text is queued, and the rerun moves it into q_input
_use_example ==
    /\ pc = "page"
    /\ \E k \in ExampleChoice : q_input' = _examples[k]
    /\ op' = [NoOp EXCEPT !.name = "use_example"]
    /\ UNCHANGED <<pc, engine, last_cypher, last_engine, last_question>>
    /\ UNCHANGED harness
    /\ UNCHANGED fn

\* the user types into the question box
EditQuestion ==
    /\ pc = "page"
    /\ \E t \in TypedInputs : q_input' = t
    /\ op' = [NoOp EXCEPT !.name = "edit"]
    /\ UNCHANGED <<pc, engine, last_cypher, last_engine, last_question>>
    /\ UNCHANGED harness
    /\ UNCHANGED fn

\* the user picks an option of the engine radio
SelectEngine ==
    /\ pc = "page"
    /\ \E k \in 1..Len(EngineOptions) : engine' = EngineOptions[k]
    /\ op' = [NoOp EXCEPT !.name = "select"]
    /\ UNCHANGED <<pc, session>>
    /\ UNCHANGED harness
    /\ UNCHANGED fn

\* the session defaults and the radio's index 0
PageInit ==
    /\ q_input = ""
    /\ engine = EngineOptions[1]
    /\ last_cypher = None
    /\ last_engine = ""
    /\ last_question = ""

(***************************************************************************)
(* tools/eval_questions.py: the evaluation harness                         *)
(***************************************************************************)

\* the engines of --engines
EngineNames == {"rules", "rules_fb", "gpt", "gpt_fb"}

\* str.startswith / str.endswith
startswith(s, t) == MatchAt(s, 0, t)
endswith(s, t) == MatchAt(s, Len(s) - Len(t), t)

\* --model
eval_model == "gpt-4o-mini"

\* gpt_nl2cypher(question, model_hint) meeting mo
gpt_nl2cypher(tab, mo) ==
    IF mo.kind = "nokey" THEN [raised |-> FALSE, value |-> FALLBACK]
    ELSE IF mo.kind = "noclient" THEN [raised |-> TRUE, value |-> ""]
    ELSE IF mo.kind = "api_error" THEN [raised |-> FALSE, value |-> FALLBACK]
    ELSE [raised |-> FALSE, value |-> tab.eval_read[mo.content]]

\* _quick_count(cy): the row count, -1 when the call raises
_quick_count(db, cy) == db[cy]

\* the first generator of generate_cypher
EvalFirst(tab, question, eng, mo) ==
    IF startswith(eng, "rules")
        THEN [raised |-> FALSE, cy |-> tab.rules[question], fb_used |-> FALSE, calls |-> <<"rules">>,
              yields |-> <<tab.rules[question]>>]
    ELSE IF startswith(eng, "gpt")
        THEN [raised |-> gpt_nl2cypher(tab, mo).raised, cy |-> gpt_nl2cypher(tab, mo).value, fb_used |-> FALSE,
              calls |-> <<"gpt">>,
              yields |-> IF gpt_nl2cypher(tab, mo).raised THEN <<>> ELSE <<gpt_nl2cypher(tab, mo).value>>]
    ELSE [raised |-> FALSE, cy |-> None, fb_used |-> FALSE, calls |-> <<>>, yields |-> <<>>]

\* `if (not cy) or cy == "FALLBACK": if engine.endswith("_fb"): ...`
EvalFallback(tab, question, eng, g) ==
    IF ~NoQuery(g.cy) \/ ~endswith(eng, "_fb") THEN g
    ELSE IF Falsy(tab.fallback[question])
        THEN [g EXCEPT !.calls = @ \o <<"fallback">>, !.yields = @ \o <<tab.fallback[question]>>]
    ELSE [g EXCEPT !.calls = @ \o <<"fallback">>, !.yields = @ \o <<tab.fallback[question]>>,
                   !.cy = tab.fallback[question], !.fb_used = TRUE]

\* the normalizers of generate_cypher
EvalNormalize(tab, eng, cy) ==
    IF startswith(eng, "gpt") THEN tab.enforce[tab.fix[tab.norm[cy]]] ELSE tab.fix[tab.norm[cy]]

\* the post-processed rules query of the rescue
EvalRulesCandidate(tab, question) == tab.fix[tab.norm[tab.rules[question]]]

\* `if is_safe_cypher(cy_rules):`, the guard of the rescue's second probe
RulesCandidateSafe(tab, cy_rules) == tab.safe[cy_rules]

\* the rescue block of generate_cypher, entered with the query cy and flag fb_used
EvalRescue(tab, db, question, cy, fb_used) ==
    LET n_gpt == _quick_count(db, cy)
        cy_rules == EvalRulesCandidate(tab, question)
        n_rules == _quick_count(db, cy_rules)
    IN  IF n_gpt <= 1
        THEN IF RulesCandidateSafe(tab, cy_rules)
             THEN IF n_rules > n_gpt
                  THEN [cy |-> cy_rules, fb_used |-> TRUE, submitted |-> <<cy, cy_rules>>,
                        calls |-> <<"rules">>, yields |-> <<tab.rules[question]>>]
                  ELSE [cy |-> cy, fb_used |-> fb_used, submitted |-> <<cy, cy_rules>>,
                        calls |-> <<"rules">>, yields |-> <<tab.rules[question]>>]
             ELSE [cy |-> cy, fb_used |-> fb_used, submitted |-> <<cy>>, calls |-> <<"rules">>,
                   yields |-> <<tab.rules[question]>>]
        ELSE [cy |-> cy, fb_used |-> fb_used, submitted |-> <<cy>>, calls |-> <<>>, yields |-> <<>>]

\* `if engine == "gpt_fb":`, the condition of the rescue block
EvalRescueEnabled(eng) == eng = "gpt_fb"

\* a variant of generate_cypher without the final is_safe_cypher test
generate_cypher_unchecked(tab, db, question, eng, mo) ==
    LET first == EvalFirst(tab, question, eng, mo)
        g == EvalFallback(tab, question, eng, first)
    IN  IF first.raised
        THEN [raised |-> TRUE, cy |-> "", fb_used |-> FALSE, calls |-> first.calls,
              yields |-> first.yields, submitted |-> <<>>,
              rescue |-> NoRescue, unsafe |-> FALSE]
        ELSE IF NoQuery(g.cy)
        THEN [raised |-> FALSE, cy |-> "", fb_used |-> g.fb_used, calls |-> g.calls,
              yields |-> g.yields, submitted |-> <<>>,
              rescue |-> NoRescue, unsafe |-> FALSE]
        ELSE LET cy == EvalNormalize(tab, eng, g.cy)
                 r == IF EvalRescueEnabled(eng) THEN EvalRescue(tab, db, question, cy, g.fb_used)
                      ELSE [cy |-> cy, fb_used |-> g.fb_used, submitted |-> <<>>, calls |-> <<>>,
                            yields |-> <<>>]
             IN  [raised |-> FALSE,
                  cy |-> r.cy,
                  fb_used |-> r.fb_used,
                  calls |-> g.calls \o r.calls,
                  yields |-> g.yields \o r.yields,
                  submitted |-> r.submitted,
                  rescue |-> [entered |-> EvalRescueEnabled(eng), chosen |-> cy, tag |-> g.fb_used,
                              candidate |-> EvalRulesCandidate(tab, question), kept |-> r.cy,
                              kept_tag |-> r.fb_used],
                  unsafe |-> ~tab.safe[r.cy]]

\* generate_cypher(question, engine, model) meeting mo and the graph db
generate_cypher(tab, db, question, eng, mo) ==
    LET first == EvalFirst(tab, question, eng, mo)
        g == EvalFallback(tab, question, eng, first)
    IN  IF first.raised
        THEN [raised |-> TRUE, cy |-> "", fb_used |-> FALSE, calls |-> first.calls,
              yields |-> first.yields, submitted |-> <<>>,
              rescue |-> NoRescue, unsafe |-> FALSE]
        ELSE IF NoQuery(g.cy)
        THEN [raised |-> FALSE, cy |-> "", fb_used |-> g.fb_used, calls |-> g.calls,
              yields |-> g.yields, submitted |-> <<>>,
              rescue |-> NoRescue, unsafe |-> FALSE]
        ELSE LET cy == EvalNormalize(tab, eng, g.cy)
                 r == IF EvalRescueEnabled(eng) THEN EvalRescue(tab, db, question, cy, g.fb_used)
                      ELSE [cy |-> cy, fb_used |-> g.fb_used, submitted |-> <<>>, calls |-> <<>>,
                            yields |-> <<>>]
             IN  [raised |-> FALSE,
                  cy |-> IF tab.safe[r.cy] THEN r.cy ELSE "",
                  fb_used |-> r.fb_used,
                  calls |-> g.calls \o r.calls,
                  yields |-> g.yields \o r.yields,
                  submitted |-> r.submitted,
                  rescue |-> [entered |-> EvalRescueEnabled(eng), chosen |-> cy, tag |-> g.fb_used,
                              candidate |-> EvalRulesCandidate(tab, question), kept |-> r.cy,
                              kept_tag |-> r.fb_used],
                  unsafe |-> ~tab.safe[r.cy]]

\* the rows of data/questions.csv the model draws the sheet from
SheetRows ==
    {[qid |-> "q1", question |-> _examples[1], gt_type |-> "ids", gt_payload |-> "D1| d2"],
     [qid |-> "q2", question |-> _examples[8], gt_type |-> "", gt_payload |-> ""],
     [qid |-> "q3", question |-> Q_HOLA, gt_type |-> "ids", gt_payload |-> ""],
     [qid |-> "q4", question |-> Q_QUOTED_SET, gt_type |-> "", gt_payload |-> ""],
     [qid |-> "q5", question |-> Q_MODIFICAN_SOBRE, gt_type |-> " IDS", gt_payload |-> "d3"]}

\* the longest sheet and the longest engine list of the model
MaxRows == 1
MaxEngines == 2

RECURSIVE SeqsUpTo(_, _)
\* the sequences over S of length 0..n
SeqsUpTo(S, n) ==
    IF n = 0 THEN {<<>>}
    ELSE SeqsUpTo(S, n - 1) \cup {Append(sq, e) : sq \in {t \in SeqsUpTo(S, n - 1) : Len(t) = n - 1}, e \in S}

\* a rational number n/d in lowest terms, for the floats of prf
RECURSIVE Gcd(_, _)
Gcd(a, b) == IF b = 0 THEN a ELSE Gcd(b, a % b)
Frac(n, d) == IF n = 0 THEN <<0, 1>> ELSE <<n \div Gcd(n, d), d \div Gcd(n, d)>>
FAdd(a, b) == Frac(a[1] * b[2] + b[1] * a[2], a[2] * b[2])
FMul(a, b) == Frac(a[1] * b[1], a[2] * b[2])
FDiv(a, b) == Frac(a[1] * b[2], a[2] * b[1])

\* a variant of prf without the case of two empty sets
prf_no_both_empty(pred, gold) ==
    IF gold = {} THEN <<Frac(0, 1), Frac(1, 1), Frac(0, 1)>>
    ELSE LET tp == Cardinality(pred \cap gold)
             pr == Frac(tp, IF Cardinality(pred) = 0 THEN 1 ELSE Cardinality(pred))
             rc == Frac(tp, IF Cardinality(gold) = 0 THEN 1 ELSE Cardinality(gold))
         IN  <<pr, rc, IF FAdd(pr, rc) = Frac(0, 1) THEN Frac(0, 1)
                       ELSE FDiv(FMul(Frac(2, 1), FMul(pr, rc)), FAdd(pr, rc))>>

\* a variant of prf that divides by the size of gold where prf divides by the size
\* of pred
prf_by_gold(pred, gold) ==
    IF gold = {} /\ pred = {} THEN <<Frac(1, 1), Frac(1, 1), Frac(1, 1)>>
    ELSE IF gold = {} THEN <<Frac(0, 1), Frac(1, 1), Frac(0, 1)>>
    ELSE LET tp == Cardinality(pred \cap gold)
             pr == Frac(tp, IF Cardinality(gold) = 0 THEN 1 ELSE Cardinality(gold))
             rc == Frac(tp, IF Cardinality(gold) = 0 THEN 1 ELSE Cardinality(gold))
         IN  <<pr, rc, IF FAdd(pr, rc) = Frac(0, 1) THEN Frac(0, 1)
                       ELSE FDiv(FMul(Frac(2, 1), FMul(pr, rc)), FAdd(pr, rc))>>

\* prf(pred, gold): (precision, recall, f1)
prf(pred, gold) ==
    IF gold = {} /\ pred = {} THEN <<Frac(1, 1), Frac(1, 1), Frac(1, 1)>>
    ELSE IF gold = {} THEN <<Frac(0, 1), Frac(1, 1), Frac(0, 1)>>
    ELSE LET tp == Cardinality(pred \cap gold)
             pr == Frac(tp, IF Cardinality(pred) = 0 THEN 1 ELSE Cardinality(pred))
             rc == Frac(tp, IF Cardinality(gold) = 0 THEN 1 ELSE Cardinality(gold))
         IN  <<pr, rc, IF FAdd(pr, rc) = Frac(0, 1) THEN Frac(0, 1)
                       ELSE FDiv(FMul(Frac(2, 1), FMul(pr, rc)), FAdd(pr, rc))>>

\* the keys of the rows of the model's data frames
DocIds == <<"D1", "d2", "d3", "d4">>

\* extract_ids(df) for the frame of n rows that answers cy: its id column (or
\* first text column) holds the first n keys; the sentinel's holds its constant
extract_ids(cy, n) ==
    IF n = 0 THEN {}
    ELSE IF cy = Q_NO_RECONOCIDA THEN {"Pregunta no reconocida"}
    ELSE {DocIds[k] : k \in 1..n}

\* gt_payload.split("|"), each part stripped, the empty ones dropped
SplitBar(s) ==
    LET bars == {0, Len(s) + 1} \cup {i \in 1..Len(s) : At(s, i) = "|"}
        parts == {strip(SubSeq(s, a + 1, Min({b \in bars : b > a}) - 1)) : a \in bars \ {Len(s) + 1}}
    IN  parts \ {""}

has_gold(row) == lower(strip(row.gt_type)) = "ids" /\ strip(row.gt_payload) # ""

gold_ids(row) == IF has_gold(row) THEN {lower(g) : g \in SplitBar(strip(row.gt_payload))} ELSE {}

GoldOf == [row \in SheetRows |-> [has_gold |-> has_gold(row), gold_ids |-> gold_ids(row)]]

\* the None of precision, recall and f1
NoScore == <<>>

\* the record of one trial before generate_cypher runs
NewRec(tab, row, eng) ==
    [qid |-> row.qid, question |-> tab.strip[row.question], engine |-> eng,
     model |-> IF startswith(eng, "gpt") THEN eval_model ELSE None,
     fallback_used |-> FALSE, status |-> "error", precision |-> NoScore, recall |-> NoScore, f1 |-> NoScore,
     rows |-> 0, cypher |-> "", error |-> None]

\* a variant of TrialRec that reports a failed run as an empty result
TrialRecSwallow(tab, db, row, eng, g) ==
    LET rec == [NewRec(tab, row, eng) EXCEPT !.fallback_used = g.fb_used, !.cypher = g.cy]
    IN  IF Falsy(g.cy) THEN [rec EXCEPT !.error = "no_cypher"]
        ELSE [rec EXCEPT !.rows = IF db[g.cy] = RAISES THEN 0 ELSE db[g.cy], !.status = "ok"]

\* a variant of TrialRec that scores every executed query, with or without gold
TrialRecScoreAlways(tab, db, row, eng, g) ==
    LET rec == [NewRec(tab, row, eng) EXCEPT !.fallback_used = g.fb_used, !.cypher = g.cy]
        n == db[g.cy]
        score == prf({lower(i) : i \in extract_ids(g.cy, n)}, GoldOf[row].gold_ids)
    IN  IF Falsy(g.cy) THEN [rec EXCEPT !.error = "no_cypher"]
        ELSE IF n = RAISES THEN [rec EXCEPT !.error = ExcText]
        ELSE [rec EXCEPT !.rows = n, !.precision = score[1], !.recall = score[2], !.f1 = score[3],
                         !.status = "ok"]

\* one pass of the body of `for eng in engines` with generate_cypher's result g
TrialRec(tab, db, row, eng, g) ==
    LET rec == [NewRec(tab, row, eng) EXCEPT !.fallback_used = g.fb_used, !.cypher = g.cy]
        n == db[g.cy]
        score == prf({lower(i) : i \in extract_ids(g.cy, n)}, GoldOf[row].gold_ids)
    IN  IF Falsy(g.cy) THEN [rec EXCEPT !.error = "no_cypher"]
        ELSE IF n = RAISES THEN [rec EXCEPT !.error = ExcText]
        ELSE IF GoldOf[row].has_gold
            THEN [rec EXCEPT !.rows = n, !.precision = score[1], !.recall = score[2], !.f1 = score[3],
                             !.status = "ok"]
        ELSE [rec EXCEPT !.rows = n, !.status = "ok"]

\* the queries the graph is asked about during one trial
TrialQueries(tab, question, eng, mo) ==
    LET g == EvalFallback(tab, question, eng, EvalFirst(tab, question, eng, mo))
    IN  IF g.raised \/ NoQuery(g.cy) THEN {}
        ELSE IF eng = "gpt_fb" THEN {EvalNormalize(tab, eng, g.cy), EvalRulesCandidate(tab, question)}
        ELSE {EvalNormalize(tab, eng, g.cy)}

\* run_eval_row: one pass of `for eng in engines` for the row main is at; an
\* exception of generate_cypher leaves run_eval_row and main
run_eval_row ==
    /\ pc = "eval"
    /\ row_i <= Len(dfq)
    /\ eng_i <= Len(engines)
    /\ \E tab \in {Memo} :
       LET row == dfq[row_i]
           eng == engines[eng_i]
           question == tab.strip[row.question]
       IN  \E mo \in ModelOutcomes : \E db \in Graphs(TrialQueries(tab, question, eng, mo)) :
           LET g == generate_cypher(tab, db, question, eng, mo)
           IN  /\ op' = [NoOp EXCEPT
                        !.name = "trial", !.calls = g.calls, !.yields = g.yields, !.db = db, !.rescue = g.rescue,
                        !.submitted = g.submitted \o (IF g.raised \/ Falsy(g.cy) THEN <<>> ELSE <<g.cy>>),
                        !.msgs = IF g.unsafe THEN <<Msg("discarded", "unsafe")>> ELSE <<>>]
               /\ IF g.raised
                  THEN /\ pc' = "crashed"
                       /\ UNCHANGED <<outputs, eng_i>>
                  ELSE /\ pc' = pc
                       /\ outputs' = Append(outputs, TrialRec(tab, db, row, eng, g))
                       /\ eng_i' = eng_i + 1
    /\ UNCHANGED <<dfq, engines, row_i, all_rows, results_jsonl>>
    /\ UNCHANGED <<engine, session>>
    /\ UNCHANGED fn

\* main: run_eval_row returned, `all_rows.extend(outs)`
main_extend ==
    /\ pc = "eval"
    /\ row_i <= Len(dfq)
    /\ eng_i > Len(engines)
    /\ all_rows' = all_rows \o outputs
    /\ outputs' = <<>>
    /\ row_i' = row_i + 1
    /\ eng_i' = 1
    /\ op' = [NoOp EXCEPT !.name = "extend"]
    /\ UNCHANGED <<pc, dfq, engines, results_jsonl>>
    /\ UNCHANGED <<engine, session>>
    /\ UNCHANGED fn

\* main: the rows are done, results.jsonl is opened with mode "w" and written
main_write ==
    /\ pc = "eval"
    /\ row_i > Len(dfq)
    /\ results_jsonl' = all_rows
    /\ pc' = "done"
    /\ op' = [NoOp EXCEPT !.name = "write"]
    /\ UNCHANGED <<dfq, engines, row_i, eng_i, outputs, all_rows>>
    /\ UNCHANGED <<engine, session>>
    /\ UNCHANGED fn

\* results/results.jsonl as an earlier run of main left it: the run of engine
\* rules on the sheet's row q3, whose query the graph answered with one row
EarlierLog(tab) ==
    LET row == CHOOSE r \in SheetRows : r.qid = "q3"
        mo == [kind |-> "nokey", content |-> ""]
        db == [cy \in TrialQueries(tab, tab.strip[row.question], "rules", mo) |-> 1]
    IN  <<TrialRec(tab, db, row, "rules", generate_cypher(tab, db, tab.strip[row.question], "rules", mo))>>

\* main before its loop: the sheet (after --limit) and --engines; the results
\* file does not exist yet, or holds the records of an earlier run
HarnessInit ==
    /\ dfq \in SeqsUpTo(SheetRows, MaxRows)
    /\ engines \in SeqsUpTo(EngineNames, MaxEngines) \ {<<>>}
    /\ row_i = 1
    /\ eng_i = 1
    /\ outputs = <<>>
    /\ all_rows = <<>>
    /\ \E tab \in {Memo} : results_jsonl \in {<<>>, EarlierLog(tab)}

\* the harness does not run
HarnessIdle ==
    /\ dfq = <<>>
    /\ engines = <<>>
    /\ row_i = 1
    /\ eng_i = 1
    /\ outputs = <<>>
    /\ all_rows = <<>>
    /\ results_jsonl = <<>>

FnIdle == fn_in = "" /\ fn_out = <<>>

(***************************************************************************)
(* The page and the harness                                                *)
(***************************************************************************)

Init ==
    /\ op = NoOp
    /\ FnIdle
    /\ PageInit
    /\ \/ pc = "page" /\ HarnessIdle
       \/ pc = "eval" /\ HarnessInit

Next ==
    \/ _generate
    \/ _execute
    \/ _clear_query
    \/ _use_example
    \/ EditQuestion
    \/ SelectEngine
    \/ run_eval_row
    \/ main_extend
    \/ main_write

Spec == Init /\ [][Next]_vars

(***************************************************************************)
(* The rules generator on its own                                          *)
(***************************************************************************)

\* the words the questions of this specification are made of
Pieces ==
    {"mencionan", "modifican", "derogan", "articulos", "tratan", "RGPD", "aepd", "vigentes",
     "Protección de Datos", "hola", "\"x y\"", "LO 3/2018"}

\* the most words in a question
MaxPieces == 2

RECURSIVE Phrases(_)
\* the questions of exactly n words
Phrases(n) ==
    IF n = 0 THEN {""}
    ELSE {IF h = "" THEN w ELSE h \o " " \o w : h \in Phrases(n - 1), w \in Pieces}

RuleQuestions == UNION {Phrases(n) : n \in 0..MaxPieces}

RulesInit ==
    /\ pc = "rules"
    /\ fn_in \in RuleQuestions
    /\ fn_out = <<>>
    /\ op = NoOp
    /\ PageInit
    /\ HarnessIdle

\* a call of gen(q)
apply_rules ==
    /\ pc = "rules"
    /\ fn_out = <<>>
    /\ fn_out' = <<rules_gen(fn_in)>>
    /\ UNCHANGED <<pc, fn_in, op, engine, session>>
    /\ UNCHANGED harness

RulesNext == apply_rules

SpecRules == RulesInit /\ [][RulesNext]_vars

(***************************************************************************)
(* The safety validator on its own                                         *)
(***************************************************************************)

\* the one-word tokens of the deny list, and their upper-case spellings
DenyWords == {"create", "merge", "delete", "set", "detach", "drop"}
DenyWordsUpper == {"CREATE", "MERGE", "DELETE", "SET", "DETACH", "DROP"}

\* the whitespace a query can hold between two words
Separators == {" ", "\n", "\t"}

\* read-only queries holding no deny-list word
ReadOnlyQueries == {"MATCH (n) RETURN n", "RETURN 1", Q_NO_RECONOCIDA}

\* a query with the word w between the whitespace a and b
Delimited(a, w, b) == "MATCH (n)" \o a \o w \o b \o "n"

SafeQueries ==
    ReadOnlyQueries
    \cup {Delimited(a, w, b) : a \in Separators, w \in DenyWords \cup DenyWordsUpper, b \in Separators}

SafeInit ==
    /\ pc = "safe"
    /\ fn_in \in SafeQueries
    /\ fn_out = <<>>
    /\ op = NoOp
    /\ PageInit
    /\ HarnessIdle

\* a call of is_safe_cypher(cy)
apply_is_safe ==
    /\ pc = "safe"
    /\ fn_out = <<>>
    /\ fn_out' = <<is_safe_cypher(fn_in)>>
    /\ UNCHANGED <<pc, fn_in, op, engine, session>>
    /\ UNCHANGED harness

SafeNext == apply_is_safe

SpecSafe == SafeInit /\ [][SafeNext]_vars

(***************************************************************************)
(* The metrics on their own                                                *)
(***************************************************************************)

\* the number of identifiers the predicted and the expected sets are drawn from
MaxIds == 3

ScoreIds == {"d" \o ToString(k) : k \in 1..MaxIds}

PrfInit ==
    /\ pc = "prf"
    /\ fn_in \in (SUBSET ScoreIds) \X (SUBSET ScoreIds)
    /\ fn_out = <<>>
    /\ op = NoOp
    /\ PageInit
    /\ HarnessIdle

\* a call of prf(pred, gold)
apply_prf ==
    /\ pc = "prf"
    /\ fn_out = <<>>
    /\ fn_out' = <<prf(fn_in[1], fn_in[2])>>
    /\ UNCHANGED <<pc, fn_in, op, engine, session>>
    /\ UNCHANGED harness

PrfNext == apply_prf

SpecPrf == PrfInit /\ [][PrfNext]_vars

(***************************************************************************)
(* The post-processor on its own                                           *)
(***************************************************************************)

\* the MATCH clauses, result clauses and ordering clauses the queries of this
\* specification are made of: aliases in lower and upper case, an alias spelled
\* like the label of another declaration, results that name the node, a field of
\* the alias or a field of the label
PostMatches ==
    {"MATCH (d:Documento)", "MATCH (d:Documento)-[:TRATA_SOBRE]->(t:Tema)", "MATCH (n)",
     "MATCH (T:Tema), (x:T)", "MATCH (D:Documento)-[:MENCIONA_DOC]->(e:D)"}

PostReturns ==
    {"\nRETURN d", "\nRETURN DISTINCT d", "\nRETURN t.nombre, d", "\nRETURN d.id AS id",
     "\nRETURN Tema.nombre", "\nRETURN Documento.titulo AS titulo", "\nreturn D"}

PostOrders == {"", "\nORDER BY d", "\nORDER BY titulo", "\nORDER BY Tema.nombre"}

PostQueries == {m \o r \o o : m \in PostMatches, r \in PostReturns, o \in PostOrders}

\* the number of times the post-processor is applied to a query
MaxPasses == 2

PostInit ==
    /\ pc = "post"
    /\ fn_in \in PostQueries
    /\ fn_out = <<>>
    /\ op = NoOp
    /\ PageInit
    /\ HarnessIdle

\* `cy = _fix_label_props_to_alias(_normalize_return(cy))`, on the query the
\* last pass left
apply_post ==
    /\ pc = "post"
    /\ Len(fn_out) < MaxPasses
    /\ LET cy == IF fn_out = <<>> THEN fn_in ELSE fn_out[Len(fn_out)]
       IN  fn_out' = Append(fn_out, _fix_label_props_to_alias(_normalize_return(cy)))
    /\ UNCHANGED <<pc, fn_in, op, engine, session>>
    /\ UNCHANGED harness

PostNext == apply_post

SpecPost == PostInit /\ [][PostNext]_vars

(***************************************************************************)
(* The canonicalizer on its own                                            *)
(***************************************************************************)

\* the words the questions of this specification are made of: the synonyms in
\* several spellings, a quoted title, words that only resemble a synonym, and
\* the regulation's name with its parentheses
TermPieces ==
    {"RGPD", "gdpr", "Reglamento UE 2016/679", "reglamento  2016 / 679", "LO 3/2018", "lo 15 / 1999",
     "AEPD", "\"mi ley\"", "hola", "rgpds", "articulo 3/2018", "Reglamento (UE) 2016/679"}

\* the most words in a question
MaxTerms == 2

RECURSIVE TermPhrases(_)
\* the questions of exactly n words
TermPhrases(n) ==
    IF n = 0 THEN {""}
    ELSE {IF h = "" THEN w ELSE h \o " " \o w : h \in TermPhrases(n - 1), w \in TermPieces}

TermQuestions == UNION {TermPhrases(n) : n \in 0..MaxTerms}

TermInit ==
    /\ pc = "term"
    /\ fn_in \in TermQuestions
    /\ fn_out = <<>>
    /\ op = NoOp
    /\ PageInit
    /\ HarnessIdle

\* a call of _doc_term_from_question(q)
apply_doc_term ==
    /\ pc = "term"
    /\ fn_out = <<>>
    /\ fn_out' = <<_doc_term_from_question(fn_in)>>
    /\ UNCHANGED <<pc, fn_in, op, engine, session>>
    /\ UNCHANGED harness

TermNext == apply_doc_term

SpecTerm == TermInit /\ [][TermNext]_vars

(***************************************************************************)
(* The page's auto mode and the harness's engine gpt_fb, side by side      *)
(***************************************************************************)

\* Generate, then Execute, in "Auto (GPT+Rescate)" on the question, meeting the
\* model outcome mo and the graph db: `used` is last_engine at the end, cy the
\* query _run_and_show ran ("" when none was run)
GenerateThenExecute(tab, db, question, mo) ==
    LET first == GenFirst(tab, AUTO, question, mo)
        g == GenFallback(tab, question, first)
        stored == tab.norm[g.cy]
    IN  IF first.raised THEN [raised |-> TRUE, used |-> "", cy |-> ""]
        ELSE IF Falsy(stored) THEN [raised |-> FALSE, used |-> g.used, cy |-> ""]
        ELSE LET r == ExecuteRescue(tab, db, question, stored, g.used)
             IN  [raised |-> FALSE, used |-> r.used,
                  cy |-> IF _run_and_show(tab, db, r.cy).ran THEN r.cy ELSE ""]

\* the queries the graph is asked about by either of the two
SideBySideQueries(tab, question, mo) ==
    LET first == GenFirst(tab, AUTO, question, mo)
        g == GenFallback(tab, question, first)
    IN  TrialQueries(tab, question, "gpt_fb", mo)
        \cup (IF first.raised \/ Falsy(tab.norm[g.cy]) THEN {} ELSE {tab.norm[g.cy], tab.norm[tab.rules[question]]})

SideBySideInit ==
    /\ pc = "side_by_side"
    /\ \E tab \in {Memo} : \E t \in EvalQuestions : \E mo \in ModelOutcomes :
         \E db \in Graphs(SideBySideQueries(tab, tab.strip[t], mo)) :
            fn_in = [question |-> tab.strip[t], mo |-> mo, db |-> db]
    /\ fn_out = [page |-> <<>>, harness |-> <<>>]
    /\ op = NoOp
    /\ PageInit
    /\ HarnessIdle

\* the page: Generar, then Ejecutar, in auto mode
generate_then_execute ==
    /\ pc = "side_by_side"
    /\ fn_out.page = <<>>
    /\ \E tab \in {Memo} :
         fn_out' = [fn_out EXCEPT !.page = <<GenerateThenExecute(tab, fn_in.db, fn_in.question, fn_in.mo)>>]
    /\ UNCHANGED <<pc, fn_in, op, engine, session>>
    /\ UNCHANGED harness

\* the harness: generate_cypher(question, "gpt_fb", model)
generate_cypher_gpt_fb ==
    /\ pc = "side_by_side"
    /\ fn_out.harness = <<>>
    /\ \E tab \in {Memo} :
         fn_out' = [fn_out EXCEPT !.harness = <<generate_cypher(tab, fn_in.db, fn_in.question, "gpt_fb", fn_in.mo)>>]
    /\ UNCHANGED <<pc, fn_in, op, engine, session>>
    /\ UNCHANGED harness

SideBySideNext == generate_then_execute \/ generate_cypher_gpt_fb

SpecSideBySide == SideBySideInit /\ [][SideBySideNext]_vars

(***************************************************************************)
(* The two readers of the model's response, side by side                   *)
(***************************************************************************)

\* what a response is made of: a leading text, a fenced block, a trailing text
\* (^ stands for the backtick)
ReadLeads == {"", "FALLBACK", "Lo siento", "FALLBACK: no match", "MATCH (n) RETURN n"}

ReadBlocks == {"", "^^^cypher\nMATCH (d:Documento) RETURN d\n^^^", "^^^\nRETURN 1\n^^^", "^^^ ^^^"}

ReadTails == {"", " return", " FALLBACK"}

ReadResponses == Responses \cup {a \o " " \o b \o c : a \in ReadLeads, b \in ReadBlocks, c \in ReadTails}

ReadInit ==
    /\ pc = "read"
    /\ fn_in \in ReadResponses
    /\ fn_out = [page |-> <<>>, harness |-> <<>>]
    /\ op = NoOp
    /\ PageInit
    /\ HarnessIdle

\* the page's _gpt_nl2cypher on the response
read_page ==
    /\ pc = "read"
    /\ fn_out.page = <<>>
    /\ fn_out' = [fn_out EXCEPT !.page = <<PageReadResponse(fn_in)>>]
    /\ UNCHANGED <<pc, fn_in, op, engine, session>>
    /\ UNCHANGED harness

\* the harness's gpt_nl2cypher on the response
read_harness ==
    /\ pc = "read"
    /\ fn_out.harness = <<>>
    /\ fn_out' = [fn_out EXCEPT !.harness = <<EvalReadResponse(fn_in)>>]
    /\ UNCHANGED <<pc, fn_in, op, engine, session>>
    /\ UNCHANGED harness

ReadNext == read_page \/ read_harness

SpecRead == ReadInit /\ [][ReadNext]_vars

(***************************************************************************)
(* A run of the harness over several questions and engines                 *)
(***************************************************************************)

\* the row of the sheet with identifier id
SheetRow(id) == CHOOSE r \in SheetRows : r.qid = id

\* sheets of two questions, in both orders
BatchSheets == {<<SheetRow("q1"), SheetRow("q3")>>, <<SheetRow("q3"), SheetRow("q1")>>}

\* --engines with two engines, in both orders
BatchEngines == {<<"rules", "gpt_fb">>, <<"gpt_fb", "rules">>}

\* main before its loop
BatchInit ==
    /\ pc = "eval"
    /\ op = NoOp
    /\ FnIdle
    /\ PageInit
    /\ dfq \in BatchSheets
    /\ engines \in BatchEngines
    /\ row_i = 1
    /\ eng_i = 1
    /\ outputs = <<>>
    /\ all_rows = <<>>
    /\ results_jsonl = <<>>

BatchNext == run_eval_row \/ main_extend \/ main_write

SpecBatch == BatchInit /\ [][BatchNext]_vars

(***************************************************************************)
(* The claims                                                              *)
(***************************************************************************)

\* C1: every query handed to run_cypher by Execute or by a trial of the harness,
\* the rescue's row-count probes included, is a query is_safe_cypher accepts
C1_SubmittedAreSafe == \A k \in 1..Len(op.submitted) : Memo.safe[op.submitted[k]]

\* cy holds a one-word deny-list token, in any letter case, with a whitespace
\* character of any kind on both sides
HasDelimitedDenyWord(cy) ==
    \E w \in DenyWords : \E i \in 1..Len(cy) :
        IMatchAt(cy, i, w) /\ IsSpace(At(cy, i)) /\ IsSpace(At(cy, i + Len(w) + 1))

\* C2: is_safe_cypher answers false for every query holding a deny-list token
\* between whitespace of any kind, in any letter case, and true for a minimal
\* read-only query
C2_RejectsDelimitedTokens ==
    (pc = "safe" /\ fn_out # <<>>) =>
        /\ HasDelimitedDenyWord(fn_in) => fn_out[1] = FALSE
        /\ fn_in \in ReadOnlyQueries => fn_out[1] = TRUE

\* the record of the last trial of the harness
LastRec == outputs[Len(outputs)]

\* the rescue block ran in the last handler: Execute in auto mode on a stored
\* query, or a trial of engine gpt_fb that had a query
RescueRan == op.rescue.entered /\ (pc = "page" \/ (pc = "eval" /\ outputs # <<>>))

\* the rescue's view r leaves the rules query in place of the chosen one, with
\* the tag (page) or the flag (harness) updated
RescueReplaced(r) ==
    /\ r.kept = r.candidate
    /\ r.kept_tag = IF pc = "page" THEN (IF r.tag = "" THEN "auto" ELSE r.tag) \o "→rules" ELSE TRUE

\* the rescue's view r leaves the chosen query and its tag or flag as they were
RescueKept(r) == r.kept = r.chosen /\ r.kept_tag = r.tag

\* what the handler left behind is what the rescue block left
RescueStored(r) ==
    /\ pc = "page" => last_cypher = r.kept /\ last_engine = r.kept_tag
    /\ pc = "eval" =>
        /\ LastRec.fallback_used = r.kept_tag
        /\ LastRec.cypher = IF Memo.safe[r.kept] THEN r.kept ELSE ""

\* C3 as stated: in auto mode the chosen query is replaced by the post-processed
\* rules query if and only if its row count is <= 1 (a raising probe counts -1)
\* and the rules query's row count is strictly greater; otherwise the chosen
\* query and its tag or flag stay
C3_RescueIffFewerRows ==
    RescueRan =>
        LET r == op.rescue
            due == op.db[r.chosen] <= 1 /\ op.db[r.candidate] > op.db[r.chosen]
        IN  (IF due THEN RescueReplaced(r) ELSE RescueKept(r)) /\ RescueStored(r)

\* C3 amended: as C3, where the harness replaces the chosen query only if, in
\* addition, the rules query passes is_safe_cypher
C3_RescueIffFewerRowsAndSafe ==
    RescueRan =>
        LET r == op.rescue
            due == /\ op.db[r.chosen] <= 1
                   /\ op.db[r.candidate] > op.db[r.chosen]
                   /\ pc = "eval" => Memo.safe[r.candidate]
        IN  (IF due THEN RescueReplaced(r) ELSE RescueKept(r)) /\ RescueStored(r)

\* a rescue happened on the page: Execute replaced the stored query
C3_Witness ==
    /\ pc = "page"
    /\ op.name = "execute"
    /\ op.rescue.entered
    /\ op.rescue.kept # op.rescue.chosen
    /\ last_cypher = op.rescue.candidate

\* C4: Generate in auto mode calls the model generator first; it calls the rules
\* generator exactly when the model returned no query or FALLBACK, and then the
\* rules query is stored under a tag auto(rules...); when the model returned a
\* query (or raised) the rules generator is not called
C4_AutoModelFirst ==
    (pc = "page" /\ op.name = "generate" /\ engine = AUTO /\ op.calls # <<>>) =>
        /\ op.calls[1] = "gpt"
        /\ IF op.yields # <<>> /\ NoQuery(op.yields[1])
           THEN /\ Len(op.calls) >= 2
                /\ op.calls[2] = "rules"
                /\ \A k \in 3..Len(op.calls) : op.calls[k] # "rules"
                /\ last_cypher = op.yields[2]
                /\ last_cypher = Memo.rules[last_question]
                /\ startswith(last_engine, "auto(rules")
           ELSE \A k \in 1..Len(op.calls) : op.calls[k] # "rules"

\* Generate in auto mode fell back to the rules after the model's FALLBACK
C4_Witness ==
    /\ pc = "page"
    /\ op.name = "generate"
    /\ engine = AUTO
    /\ op.calls = <<"gpt", "rules">>
    /\ op.yields[1] = FALLBACK
    /\ last_engine = "auto(rules:rules)"

\* C5: Generate in model-only mode, when the model call is unavailable or returns
\* FALLBACK, calls no other generator (neither the rules nor the keyword
\* fallback), and what it stores is no query
C5_ModelOnlyNoEscalation ==
    (pc = "page" /\ op.name = "generate" /\ engine = SOLO_GPT /\ op.yields # <<>> /\ NoQuery(op.yields[1])) =>
        /\ op.calls = <<"gpt">>
        /\ NoQuery(last_cypher)

\* C6: an Execute in rules-only or model-only mode leaves last_cypher and
\* last_engine as they were and hands run_cypher nothing but the stored query,
\* at most once
C6_RescueAutoOnly ==
    [][(pc = "page" /\ op'.name = "execute" /\ engine # AUTO) =>
            /\ last_cypher' = last_cypher
            /\ last_engine' = last_engine
            /\ Len(op'.submitted) <= 1
            /\ \A k \in 1..Len(op'.submitted) : op'.submitted[k] = last_cypher]_vars

\* Execute in model-only mode ran the stored query where auto mode would have
\* rescued: at most one row, and more rows for the rules query
C6_Witness ==
    /\ pc = "page"
    /\ op.name = "execute"
    /\ engine = SOLO_GPT
    /\ op.submitted = <<last_cypher>>
    /\ op.db[last_cypher] <= 1
    /\ op.db[op.rescue.candidate] > op.db[last_cypher]

UnsafeText == "El Cypher generado contiene operaciones no permitidas (CREATE/MERGE/DELETE/SET...)."

\* the kind of failure the handler or trial traced in o reported, with the
\* harness's list outs: no query could be produced, the query was unsafe, or
\* the query was executed and failed; "none" otherwise
FailureKind(o, outs) ==
    IF o.name = "generate" /\ o.events # <<>>
        THEN IF o.events[1].status # "error" /\ NoQuery(o.events[1].cypher) THEN "no_query" ELSE "none"
    ELSE IF o.name = "execute" /\ o.events # <<>>
        THEN IF o.events[1].error = UnsafeText THEN "unsafe"
             ELSE IF o.events[1].error = "Error al ejecutar: " \o ExcText THEN "exec_failed"
             ELSE "none"
    ELSE IF o.name = "trial" /\ outs # <<>>
        THEN IF o.msgs # <<>> THEN "unsafe"
             ELSE IF outs[Len(outs)].cypher = "" THEN "no_query"
             ELSE IF outs[Len(outs)].error = ExcText THEN "exec_failed"
             ELSE "none"
    ELSE "none"

\* the status reported with it
ReportedStatus(o, outs) ==
    IF o.name = "trial" THEN outs[Len(outs)].status ELSE o.events[1].status

\* C7: the three failure kinds are reported with pairwise different status
\* values, in the harness's records and in the page's log_event calls: two
\* failures of different kinds in a row never carry the same status
C7_FailureKindsDistinct ==
    [][(/\ pc' = pc
        /\ FailureKind(op, outputs) # "none"
        /\ FailureKind(op', outputs') # "none"
        /\ FailureKind(op, outputs) # FailureKind(op', outputs'))
            => ReportedStatus(op, outputs) # ReportedStatus(op', outputs')]_vars

\* C10: in rules-only mode the sentinel query of an unrecognized question runs to
\* its one constant row without a rescue, and the outcome is not reported as ok
\* (the status of the page's log_event calls, the status of the harness record)
C10_SentinelNotOk ==
    /\ (pc = "page" /\ engine = SOLO_REGLAS /\ op.events # <<>> /\ op.events[1].cypher = Q_NO_RECONOCIDA) =>
        /\ ~op.rescue.entered
        /\ op.events[1].rows \subseteq {1}
        /\ op.events[1].status # "ok"
    /\ (pc = "eval" /\ op.name = "trial" /\ outputs # <<>> /\ LastRec.engine = "rules"
            /\ LastRec.cypher = Q_NO_RECONOCIDA) =>
        /\ ~op.rescue.entered
        /\ LastRec.rows \in {0, 1}
        /\ LastRec.status # "ok"

\* the branch of _rules a query comes from
BranchOf(cy) ==
    IF cy = Q_RGPD THEN "RGPD"
    ELSE IF cy = Q_AEPD THEN "AEPD"
    ELSE IF cy = Q_VIGENTE THEN "IN_FORCE"
    ELSE IF cy = Q_PROTECCION THEN "DATA_PROTECTION"
    ELSE IF startswith(cy, "MATCH (d:Documento)-[:MENCIONA_DOC|MENCIONA]->(x)") THEN "MENTIONS"
    ELSE IF cy = Q_MODIFICA THEN "MODIFIES"
    ELSE IF cy = Q_DEROGA THEN "REPEALS"
    ELSE IF startswith(cy, "MATCH (d:Documento)-[:TIENE_ARTICULO]->(a:Articulo)") THEN "HAS_ARTICLES"
    ELSE IF cy = Q_TRATA THEN "ABOUT_TOPIC"
    ELSE IF cy = Q_NO_RECONOCIDA THEN "UNRECOGNIZED"
    ELSE "NONE"

\* the question q matches the pattern of branch b
Applies(b, q) ==
    CASE b = "RGPD" -> ContainsAny(_norm(q), {"rgpd", "gdpr", "reglamento 2016 679"})
      [] b = "AEPD" -> ContainsAny(_norm(q), {"aepd", "agencia espanola de proteccion de datos"})
      [] b = "IN_FORCE" -> ContainsAny(_norm(q), {"vigent", "actual"})
      [] b = "DATA_PROTECTION" -> Contains(_norm(q), "proteccion de datos")
      [] b = "MENTIONS" -> _has_root_mencion(q)
      [] b = "MODIFIES" -> _has_root_modific(q)
      [] b = "REPEALS" -> _has_root_derog(q)
      [] b = "HAS_ARTICLES" -> _has_root_articul(q)
      [] b = "ABOUT_TOPIC" -> Contains(_norm(q), "proteccion de datos") \/ _has_root_trat(q)

\* the first branch of order that q matches, UNRECOGNIZED when none does
FirstApplying(order, q) ==
    LET hits == {k \in 1..Len(order) : Applies(order[k], q)}
    IN  IF hits = {} THEN "UNRECOGNIZED" ELSE order[Min(hits)]

\* the priority order of the claim, and the order with the four keyword
\* patterns ahead of it
IntentOrder == <<"MENTIONS", "MODIFIES", "REPEALS", "HAS_ARTICLES", "ABOUT_TOPIC">>
BranchOrder == <<"RGPD", "AEPD", "IN_FORCE", "DATA_PROTECTION">> \o IntentOrder

\* the intent a branch's query answers: the acronym queries match mentions of
\* an entity, the data-protection query matches a topic
IntentOfBranch(b) ==
    IF b \in {"RGPD", "AEPD"} THEN "MENTIONS"
    ELSE IF b = "DATA_PROTECTION" THEN "ABOUT_TOPIC"
    ELSE b

C9_AlwaysAQuery ==
    (pc = "rules" /\ fn_out # <<>>) =>
        /\ ~NoQuery(fn_out[1])
        /\ BranchOf(fn_out[1]) # "NONE"
        /\ (\A k \in 1..Len(BranchOrder) : ~Applies(BranchOrder[k], fn_in)) => fn_out[1] = Q_NO_RECONOCIDA
        /\ fn_out[1] = Q_NO_RECONOCIDA => is_safe_cypher(fn_out[1])

\* a question no rule matches got the sentinel query
C9_Witness ==
    /\ pc = "rules"
    /\ fn_in = "hola"
    /\ fn_out = <<Q_NO_RECONOCIDA>>

\* C11: the model generator never raises to its caller: a Generate or a trial
\* that called it got a text back from it (FALLBACK when the call failed), and
\* the harness's run goes on
C11_ModelCallNeverRaises ==
    /\ pc # "crashed"
    /\ (op.name \in {"generate", "trial"} /\ op.calls # <<>> /\ op.calls[1] = "gpt") => op.yields # <<>>

\* C12: when run_cypher raises on a trial's query, that trial's record, and no
\* other, is appended with status error and the exception text, with no rows
\* and no scores; the failed run is the trial's last call of the graph, and the
\* harness goes on to the next engine of the row
C12_GraphErrorRecorded ==
    [][(/\ pc = "eval"
        /\ op'.name = "trial"
        /\ Len(outputs') > Len(outputs)
        /\ outputs'[Len(outputs')].cypher # ""
        /\ op'.db[outputs'[Len(outputs')].cypher] = RAISES) =>
            LET rec == outputs'[Len(outputs')]
            IN  /\ outputs' = Append(outputs, rec)
                /\ rec.status = "error"
                /\ rec.error = ExcText
                /\ rec.rows = 0
                /\ rec.precision = NoScore /\ rec.recall = NoScore /\ rec.f1 = NoScore
                /\ op'.submitted # <<>>
                /\ op'.submitted[Len(op'.submitted)] = rec.cypher
                /\ pc' = "eval"
                /\ eng_i' = eng_i + 1
                /\ row_i' = row_i
                /\ all_rows' = all_rows]_vars

\* the first engine's run raised and was recorded, and the second engine's
\* trial of the same row followed
C12_Witness ==
    /\ pc = "eval"
    /\ Len(outputs) = 2
    /\ outputs[1].status = "error"
    /\ outputs[1].error = ExcText
    /\ outputs[2].engine = engines[2]

\* the numbers 0 and 1 as prf returns them
F0 == Frac(0, 1)
F1 == Frac(1, 1)

\* C13: prf returns (1,1,1) for two empty sets, (0,1,0) for an empty gold and a
\* non-empty pred, (0,0,0) for an empty pred and a non-empty gold
C13_PrfBoundaries ==
    (pc = "prf" /\ fn_out # <<>>) =>
        LET pred == fn_in[1]
            gold == fn_in[2]
        IN  /\ (pred = {} /\ gold = {}) => fn_out[1] = <<F1, F1, F1>>
            /\ (pred # {} /\ gold = {}) => fn_out[1] = <<F0, F1, F0>>
            /\ (pred = {} /\ gold # {}) => fn_out[1] = <<F0, F0, F0>>

\* prf ran on an empty gold and a non-empty pred
C13_Witness ==
    /\ pc = "prf"
    /\ fn_in[1] # {}
    /\ fn_in[2] = {}
    /\ fn_out = << <<F0, F1, F0>> >>

\* f1 = 2pr/(p+r), 0 when p+r = 0
F1Of(p, r) == IF FAdd(p, r) = F0 THEN F0 ELSE FDiv(FMul(Frac(2, 1), FMul(p, r)), FAdd(p, r))

\* C14 as stated: precision is |pred & gold| / |pred| (1 for two empty sets),
\* recall is |pred & gold| / |gold| (1 for two empty sets, 0 for an empty gold
\* and a non-empty pred), f1 is 2pr/(p+r) (0 when p+r = 0)
C14_PrfFormulas ==
    (pc = "prf" /\ fn_out # <<>>) =>
        LET pred == fn_in[1]
            gold == fn_in[2]
            tp == Cardinality(pred \cap gold)
            p == fn_out[1][1]
            r == fn_out[1][2]
        IN  /\ (pred = {} /\ gold = {}) => p = F1
            /\ pred # {} => p = Frac(tp, Cardinality(pred))
            /\ (pred = {} /\ gold = {}) => r = F1
            /\ (pred # {} /\ gold = {}) => r = F0
            /\ gold # {} => r = Frac(tp, Cardinality(gold))
            /\ fn_out[1][3] = F1Of(p, r)

\* C14 amended: as C14, where recall is 1 for every empty gold, also when pred
\* is not empty, and precision is 0 for an empty pred and a non-empty gold
C14_PrfFormulasRecallOne ==
    (pc = "prf" /\ fn_out # <<>>) =>
        LET pred == fn_in[1]
            gold == fn_in[2]
            tp == Cardinality(pred \cap gold)
            p == fn_out[1][1]
            r == fn_out[1][2]
        IN  /\ p = IF pred # {} THEN Frac(tp, Cardinality(pred)) ELSE IF gold = {} THEN F1 ELSE F0
            /\ r = IF gold # {} THEN Frac(tp, Cardinality(gold)) ELSE F1
            /\ fn_out[1][3] = F1Of(p, r)

\* prf ran on three predicted identifiers, one of them the only expected one:
\* precision 1/3, recall 1, f1 1/2
C14_Witness ==
    /\ pc = "prf"
    /\ Cardinality(fn_in[1]) = 3
    /\ Cardinality(fn_in[2]) = 1
    /\ fn_in[2] \subseteq fn_in[1]
    /\ fn_out = << <<Frac(1, 3), Frac(1, 1), Frac(1, 2)>> >>

\* C15: the post-processor (return-shape normalization, then alias
\* rectification) applied to its own result gives that result again
C15_PostIdempotent ==
    (pc = "post" /\ Len(fn_out) >= 2) => fn_out[2] = fn_out[1]

\* the documented synonyms in list order, each with the spellings of it the
\* questions use, and its documented canonical term
DocumentedSynonyms ==
    << [spellings |-> {"RGPD"}, canon |-> "reglamento ue 2016 679"],
       [spellings |-> {"gdpr"}, canon |-> "reglamento ue 2016 679"],
       [spellings |-> {"Reglamento UE 2016/679", "reglamento  2016 / 679"}, canon |-> "reglamento ue 2016 679"],
       [spellings |-> {"LO 3/2018"}, canon |-> "lo 3 2018"],
       [spellings |-> {"lo 15 / 1999"}, canon |-> "lo 15 1999"],
       [spellings |-> {"AEPD"}, canon |-> "aepd"] >>

\* the word w is one of the words of the question q
HasWord(q, w) == q = w \/ startswith(q, w \o " ") \/ endswith(q, " " \o w) \/ Contains(q, " " \o w \o " ")

\* the documented synonyms the question holds
SynonymsIn(q) == {k \in 1..Len(DocumentedSynonyms) : \E w \in DocumentedSynonyms[k].spellings : HasWord(q, w)}

C17_LogAppendOnly ==
    [][/\ Len(results_jsonl') >= Len(results_jsonl)
       /\ \A k \in 1..Len(results_jsonl) : results_jsonl'[k] = results_jsonl[k]]_vars

\* the lines of the text cy
Lines(cy) ==
    LET brk == {0, Len(cy) + 1} \cup {i \in 1..Len(cy) : At(cy, i) = "\n"}
    IN  {SubSeq(cy, a + 1, Min({b \in brk : b > a}) - 1) : a \in brk \ {Len(cy) + 1}}

\* the clauses of cy that start with the keyword kw
ClausesOf(cy, kw) == {l \in Lines(cy) : startswith(l, kw)}

\* the query cy has the two-field projection for its only result clause and is
\* ordered by titulo
TwoFieldProjection(cy) ==
    /\ ClausesOf(cy, "RETURN") = {"RETURN DISTINCT d.id AS id, d.titulo AS titulo"}
    /\ ClausesOf(cy, "ORDER BY") = {"ORDER BY titulo"}
    /\ endswith(cy, "\nORDER BY titulo")

\* C18: for the first example question the rules generator gives a query of the
\* MENTIONS intent; post-processed by Generate in rules-only mode, and by a
\* trial of a rules engine, its result clause is exactly RETURN DISTINCT d.id AS
\* id, d.titulo AS titulo and it is ordered by titulo; the question's canonical
\* term is reglamento ue 2016 679
C18_MentionsRgpd ==
    /\ (pc = "page" /\ op.name = "generate" /\ op.calls = <<"rules">> /\ last_question = _examples[1]) =>
        /\ IntentOfBranch(BranchOf(op.yields[1])) = "MENTIONS"
        /\ TwoFieldProjection(last_cypher)
        /\ _doc_term_from_question(last_question) = "reglamento ue 2016 679"
    /\ (pc = "eval" /\ op.name = "trial" /\ op.calls = <<"rules">> /\ LastRec.question = _examples[1]) =>
        /\ IntentOfBranch(BranchOf(op.yields[1])) = "MENTIONS"
        /\ TwoFieldProjection(LastRec.cypher)
        /\ _doc_term_from_question(LastRec.question) = "reglamento ue 2016 679"

\* Generate in rules-only mode stored the query of the first example question
C18_Witness ==
    /\ pc = "page"
    /\ op.name = "generate"
    /\ engine = SOLO_REGLAS
    /\ last_question = "¿Qué documentos mencionan RGPD?"
    /\ last_cypher = Q_RGPD
    /\ last_engine = "rules:rules"

\* C20: a question with the article root and no canonical term (no synonym, no
\* quoted text) does not get the HAS_ARTICLE query
C20_ArticlesNeedTerm ==
    (pc = "rules" /\ fn_out # <<>> /\ _has_root_articul(fn_in) /\ Falsy(_doc_term_from_question(fn_in))) =>
        BranchOf(fn_out[1]) # "HAS_ARTICLES"

\* the generator the page's final query came from, read off last_engine
PageOrigin(r) ==
    IF r.raised THEN "raised"
    ELSE IF r.cy = "" THEN "none"
    ELSE IF endswith(r.used, "→rules") THEN "rules"
    ELSE IF Contains(r.used, "+fallback") THEN "fallback"
    ELSE IF startswith(r.used, "auto(rules") THEN "rules"
    ELSE "model"

\* the generator the harness's final query came from
HarnessOrigin(g) ==
    IF g.raised THEN "raised"
    ELSE IF g.cy = "" THEN "none"
    ELSE IF g.rescue.kept # g.rescue.chosen THEN "rules"
    ELSE IF g.rescue.tag = TRUE THEN "fallback"
    ELSE "model"

\* C19: on the same question, model outcome and graph, engine gpt_fb of the
\* harness and the page's auto mode (Generate, then Execute) end with a query
\* of the same generator, or both with none; when the model gave no query and
\* no keyword fallback applies, both end with the rules query
C19_SameEscalation ==
    (pc = "side_by_side" /\ fn_out.page # <<>> /\ fn_out.harness # <<>>) =>
        /\ PageOrigin(fn_out.page[1]) = HarnessOrigin(fn_out.harness[1])
        /\ PageOrigin(fn_out.page[1]) = "rules" => fn_out.page[1].cy = fn_out.harness[1].cy

\* the response c holds a fenced block: two fences with text between them
HasBlock(c) == \E i \in 0..Len(c) : \E j \in (i + 4)..Len(c) : MatchAt(c, i, FENCE) /\ MatchAt(c, j, FENCE)

\* the reading of the response c in the fixed order: the fenced block, else the
\* sentinel if c holds it, else c if it holds match or return, else the sentinel
ReadInOrder(c) ==
    IF HasBlock(c) THEN strip(Fenced(c))
    ELSE IF Contains(c, "FALLBACK") THEN FALLBACK
    ELSE IF ContainsAny(lower(c), {"match", "return"}) THEN strip(c)
    ELSE FALLBACK

\* C21: the page's reader and the harness's reader both read a response in the
\* fixed order block, sentinel, query-like text; a response with the sentinel and
\* no block is never taken for a query
C21_ReadInOrder ==
    pc = "read" =>
        /\ fn_out.page # <<>> => fn_out.page[1] = ReadInOrder(fn_in)
        /\ fn_out.harness # <<>> => fn_out.harness[1] = ReadInOrder(fn_in)

\* the records rs are one per (question, engine) pair, by question in the
\* sheet's order and then by engine in the order of --engines
OnePerPairInOrder(rs) ==
    \A k \in 1..Len(rs) :
        /\ rs[k].qid = dfq[((k - 1) \div Len(engines)) + 1].qid
        /\ rs[k].engine = engines[((k - 1) % Len(engines)) + 1]

\* C22: a run of the harness over n questions and m engines leaves exactly one
\* record per (question, engine) pair in the log, n*m records, by question and
\* then by engine
C22_OneRecordPerPair ==
    pc \in {"eval", "done", "crashed"} =>
        /\ OnePerPairInOrder(all_rows \o outputs)
        /\ pc # "eval" =>
              /\ results_jsonl = all_rows \o outputs
              /\ Len(results_jsonl) = Len(dfq) * Len(engines)

\* the records of the harness: of the row in progress, of the rows done, of the log
AllRecords == Range(outputs) \cup Range(all_rows) \cup Range(results_jsonl)

\* the record r carries precision, recall and f1
Scored(r) == r.precision # NoScore /\ r.recall # NoScore /\ r.f1 # NoScore

\* the record r carries none of the three
Unscored(r) == r.precision = NoScore /\ r.recall = NoScore /\ r.f1 = NoScore

\* C23: in every record precision, recall and f1 are all present or all absent;
\* they are present only if the question has ground truth of type ids with a
\* non-empty payload and the query ran without error; a record with status
\* error, or with no query, has none of them and rows = 0
C23_ScoresAllOrNone ==
    \A r \in AllRecords :
        /\ Scored(r) \/ Unscored(r)
        /\ Scored(r) =>
              /\ lower(strip(SheetRow(r.qid).gt_type)) = "ids"
              /\ strip(SheetRow(r.qid).gt_payload) # ""
              /\ r.status = "ok"
              /\ r.error = None
        /\ (r.status = "error" \/ r.cypher = "") => Unscored(r) /\ r.rows = 0

\* the first trial of a question with ground truth was scored and the second
\* ended with an execution error
C23_Witness ==
    /\ pc = "eval"
    /\ Len(outputs) = 2
    /\ Scored(outputs[1])
    /\ outputs[2].status = "error"
    /\ outputs[2].error \notin {None, "no_cypher"}
    /\ outputs[2].cypher # ""

\* C24: generate_cypher returns the empty string or a query is_safe_cypher
\* accepts, whatever the question, the engine, the model's outcome and the
\* graph's row counts; the run that is scored is of a validated query
C24_ReturnsEmptyOrSafe ==
    /\ \A r \in AllRecords :
          /\ r.cypher = "" \/ Memo.safe[r.cypher]
          /\ (r.status = "ok" \/ r.error \notin {None, "no_cypher"}) => r.cypher # ""
    /\ (pc = "eval" /\ op.name = "trial" /\ LastRec.cypher # "") =>
          /\ op.submitted # <<>>
          /\ op.submitted[Len(op.submitted)] = LastRec.cypher

\* a trial whose query is_safe_cypher rejected: nothing is returned
C24_Witness ==
    /\ pc = "eval"
    /\ op.name = "trial"
    /\ op.rescue.kept # ""
    /\ ~Memo.safe[op.rescue.kept]
    /\ LastRec.cypher = ""
    /\ LastRec.error = "no_cypher"

\* cy is a query of _build_theme_fallback_fulltext, possibly post-processed
IsFullText(cy) == startswith(cy, "CALL db.")

\* the position of the keyword fallback among the calls of the last handler, 0 if none
FallbackCall == IF \E k \in 1..Len(op.calls) : op.calls[k] = "fallback"
                THEN CHOOSE k \in 1..Len(op.calls) : op.calls[k] = "fallback"
                ELSE 0

\* the keyword fallback gave a full-text query in the last handler
FullTextFallback == FallbackCall > 0 /\ IsFullText(op.yields[FallbackCall])

\* C25: a query of the full-text theme fallback is rejected by is_safe_cypher;
\* the harness returns no query with fallback_used = TRUE unless the rescue
\* replaced it, the page's _run_and_show answers with the operations-not-permitted
\* error, and no record or event shows rows for such a query
C25_FullTextNeverRuns ==
    /\ FullTextFallback => ~is_safe_cypher(op.yields[FallbackCall])
    /\ (pc = "eval" /\ op.name = "trial" /\ FullTextFallback) =>
          /\ LastRec.fallback_used
          /\ IsFullText(op.rescue.chosen)
          /\ \/ LastRec.cypher = "" /\ LastRec.status = "error" /\ LastRec.rows = 0
             \/ /\ op.rescue.kept = op.rescue.candidate
                /\ op.rescue.kept # op.rescue.chosen
                /\ LastRec.cypher = op.rescue.kept
    /\ \A r \in AllRecords : ~IsFullText(r.cypher)
    /\ (pc = "page" /\ op.name = "execute" /\ IsFullText(op.rescue.kept)) =>
          /\ op.msgs[Len(op.msgs)].kind = "error"
          /\ startswith(op.msgs[Len(op.msgs)].text, "El Cypher generado contiene operaciones no permitidas")
          /\ op.events[1].status = "error"
          /\ op.events[1].rows = {}
          /\ op.submitted \in {<<>>, <<op.rescue.chosen>>, <<op.rescue.chosen, op.rescue.candidate>>}

\* a trial of gpt_fb whose model gave nothing and whose keyword fallback gave the
\* full-text query: no query is returned and the flag is set
C25_Witness ==
    /\ pc = "eval"
    /\ op.name = "trial"
    /\ FullTextFallback
    /\ LastRec.engine = "gpt_fb"
    /\ LastRec.cypher = ""
    /\ LastRec.fallback_used

\* C26: the page never hands the text FALLBACK to the graph: Execute on a
\* stored sentinel calls run_cypher on nothing and reports that there is no query
C26_SentinelNeverSubmitted ==
    (pc = "page" /\ op.name = "execute") =>
        /\ \A k \in 1..Len(op.submitted) : op.submitted[k] # FALLBACK
        /\ op.rescue.chosen = FALLBACK =>
              /\ op.submitted = <<>>
              /\ op.msgs[Len(op.msgs)].text \in {"Genera primero el Cypher.", "No hay Cypher para ejecutar."}

\* what engines rules and rules_fb return for the question q: the post-processed
\* rules query if is_safe_cypher accepts it
RulesResult(q) ==
    LET cy == Memo.fix[Memo.norm[Memo.rules[q]]]
    IN  IF Memo.safe[cy] THEN cy ELSE ""

\* C27: the rules generator never returns nothing, so the keyword fallback is
\* not reached after it: engines rules and rules_fb return the same query with
\* fallback_used = FALSE, and a Generate that generates in rules-only or auto
\* mode never appends +fallback to last_engine
C27_NoFallbackAfterRules ==
    /\ \A k \in 1..Len(op.yields) : (op.calls[k] = "rules") => ~NoQuery(op.yields[k])
    /\ (pc = "eval" /\ op.name = "trial" /\ LastRec.engine \in {"rules", "rules_fb"}) =>
          /\ op.calls = <<"rules">>
          /\ LastRec.fallback_used = FALSE
          /\ LastRec.cypher = RulesResult(LastRec.question)
    /\ (pc = "page" /\ op.name = "generate" /\ op.events # <<>> /\ engine # SOLO_GPT) =>
          /\ \A k \in 1..Len(op.calls) : op.calls[k] # "fallback"
          /\ ~Contains(last_engine, "+fallback")

\* a trial of rules_fb on a question the keyword fallback has a query for
C27_Witness ==
    /\ pc = "eval"
    /\ op.name = "trial"
    /\ LastRec.engine = "rules_fb"
    /\ ~Falsy(Memo.fallback[LastRec.question])
    /\ LastRec.cypher # ""
    /\ LastRec.status = "ok"

\* the graph answers the queries of the next handler as it answered them in the last
SameRowCounts == \A c \in (DOMAIN op.db) \cap (DOMAIN op'.db) : op'.db[c] = op.db[c]

\* the number of times the text t occurs in s
Occurrences(s, t) == Cardinality({i \in 0..Len(s) : MatchAt(s, i, t)})

\* C28: the rescue is idempotent across repeated Execute: while the row counts
\* do not change, an Execute that follows an Execute in auto mode with no
\* Generate between them replaces nothing, leaves last_cypher and last_engine as
\* they are, and the tag holds the rescue mark at most once
C28_RescueOnce ==
    [][(/\ pc = "page"
        /\ op.name = "execute"
        /\ op.rescue.entered
        /\ op'.name = "execute"
        /\ op'.rescue.entered
        /\ SameRowCounts)
       => /\ last_cypher' = last_cypher
          /\ last_engine' = last_engine
          /\ op'.rescue.kept = op'.rescue.chosen
          /\ op'.rescue.kept_tag = op'.rescue.tag
          /\ Occurrences(last_engine', "→rules") <= 1]_vars

\* an Execute in auto mode that met the rules query an earlier Execute had put
\* in place of the generated one, and kept it
C28_Witness ==
    /\ pc = "page"
    /\ op.name = "execute"
    /\ op.rescue.entered
    /\ Occurrences(op.rescue.tag, "→rules") = 1
    /\ op.rescue.chosen = op.rescue.candidate
    /\ op.rescue.kept = op.rescue.chosen
    /\ last_engine = op.rescue.tag
    /\ last_cypher = op.rescue.chosen

\* the last handler was a Generate that raised
GenerateFailed == op.name = "generate" /\ op.events # <<>> /\ op.events[1].status = "error"

\* the handler of this step only warned that a query must be generated first
OnlyWarns ==
    /\ op'.submitted = <<>>
    /\ op'.events = <<>>
    /\ op'.msgs = <<Msg("warning", "Genera primero el Cypher.")>>
    /\ UNCHANGED session

\* C29: Execute hands a query to the graph only if a Generate has stored a
\* non-empty query since the last Clear and since the last Generate that raised:
\* a stored query appears only by a Generate that did not raise, Clear and a
\* failed Generate remove it, no other handler changes whether there is one, and
\* Execute with none stored only warns
C29_ExecuteNeedsGenerate ==
    [][pc = "page" =>
        /\ (Falsy(last_cypher) /\ ~Falsy(last_cypher')) =>
              op'.name = "generate" /\ op'.events # <<>> /\ op'.events[1].status # "error"
        /\ op'.name = "clear" => Falsy(last_cypher')
        /\ (op'.name = "generate" /\ op'.events # <<>> /\ op'.events[1].status = "error") =>
              Falsy(last_cypher')
        /\ (op'.name = "generate" /\ op'.events = <<>>) => last_cypher' = last_cypher
        /\ (op'.name = "execute" /\ Falsy(last_cypher)) => OnlyWarns
        /\ (op'.name = "execute" /\ op'.submitted # <<>>) => ~Falsy(last_cypher)]_vars

\* Execute after a Generate that raised where a query was stored before: it only warns
C29_Witness ==
    /\ pc = "page"
    /\ op.name = "execute"
    /\ op.msgs = <<Msg("warning", "Genera primero el Cypher.")>>
    /\ op.submitted = <<>>
    /\ last_cypher = None
    /\ last_question # ""

\* the queries Generate can store for the question q: the normalized rules
\* query, keyword fallback or reading of a model response
GeneratedFor(q) ==
    {Memo.norm[Memo.rules_ex[q][1]], Memo.norm[FALLBACK]}
        \cup {Memo.norm[Memo.fallback[t]] : t \in {u \in {q} : ~Falsy(Memo.fallback[u])}}
        \cup {Memo.norm[Memo.page_read[c]] : c \in Responses}

\* C30: whenever a non-empty query is stored, last_question is the question
\* it was generated from, also after the box was edited; the rescue of Execute
\* regenerates the rules query for that question, never for the text of the box
C30_QuestionOfStoredQuery ==
    /\ (pc = "page" /\ ~Falsy(last_cypher)) =>
          /\ last_question # ""
          /\ last_cypher \in GeneratedFor(last_question) \cup {Memo.norm[Memo.rules[last_question]]}
    /\ (pc = "page" /\ op.name = "generate" /\ ~Falsy(last_cypher) /\ op.events # <<>>) =>
          /\ last_question = Memo.strip[q_input]
          /\ op.events[1].question = last_question
    /\ (pc = "page" /\ op.name = "execute" /\ op.rescue.entered) =>
          /\ op.rescue.candidate = Memo.norm[Memo.rules[last_question]]
          /\ op.events[1].question = last_question

\* Execute in auto mode after the box was edited to another question: the
\* rescue put the rules query of the generated question in place of the stored one
C30_Witness ==
    /\ pc = "page"
    /\ op.name = "execute"
    /\ op.rescue.entered
    /\ Memo.strip[q_input] # last_question
    /\ Memo.norm[Memo.rules[q_input]] # Memo.norm[Memo.rules[last_question]]
    /\ op.rescue.kept = Memo.norm[Memo.rules[last_question]]
    /\ op.rescue.kept # op.rescue.chosen
    /\ last_cypher = op.rescue.kept
====
